---- MODULE Spec2Model ----
(***************************************************************************)
(* SystemChecker: the agent-pattern orchestration layer                    *)
(* (core/agent_factory.py), the response cache (core/cache_manager.py),    *)
(* the interaction memory (core/memory_manager.py) and the interactive     *)
(* loop that drives them (main.py).                                        *)
(*                                                                         *)
(* Python values are modelled as follows.  A dict is a record whose        *)
(* domain is the dict's keys; None is the record PyNone.  A file of the    *)
(* cache directory is a record: NoFile (the path does not exist),          *)
(* Corrupt (the file exists and json.load or a field access on it          *)
(* raises) or a JSON document {timestamp, query, result}.  Time is a       *)
(* counter of seconds advanced by Tick.  Everything the code reaches       *)
(* through a library or the operating system (the agent executor and the   *)
(* language model behind it, the file system calls) is an input of the     *)
(* action that reaches it: the call either returns or raises.              *)
(***************************************************************************)
EXTENDS Integers, Sequences, FiniteSets, TLC

VARIABLES
    settings,         \* config/settings.py Settings: the fields the core reads
    cache_dir,        \* data/cache: cache key -> file content
    now,              \* datetime.now(), in seconds
    current_pattern,  \* AdvancedAISystemAdmin.current_pattern
    agent_pattern,    \* AdvancedAISystemAdmin.agent_pattern (the strategy instance)
    memory_manager,   \* AdvancedAISystemAdmin.memory_manager
    pc,               \* where the main thread and the collector thread are inside
                      \* a call of the cache manager
    last              \* the last call made on the cache manager (CacheSpec) or the
                      \* last question or pattern switch of the session (Spec):
                      \* its arguments and what it returned

vars == <<settings, cache_dir, now, current_pattern, agent_pattern, memory_manager, pc, last>>

\* a thread that is inside no call of the cache manager
Idle == [at |-> "idle"]

----------------------------------------------------------------------------
(* Bounds of the model *)

\* the clock stops at MaxTime seconds
MaxTime == 1

\* at most MaxInteractions queries are answered in one session
MaxInteractions == 2

----------------------------------------------------------------------------
(* Python values *)

PyNone == [py_none |-> TRUE]

\* the query texts given to the cache manager through its own interface
Queries == {"foo", "foo "}

\* the text a language model run produces as its final answer
AgentOutputs == {"a1"}

\* str(e) of an exception raised by a collaborator
Causes == {"boom"}

\* str.strip() on the blank
RECURSIVE lstrip(_)
lstrip(text) ==
    IF Len(text) > 0 /\ SubSeq(text, 1, 1) = " "
        THEN lstrip(SubSeq(text, 2, Len(text)))
        ELSE text

RECURSIVE rstrip(_)
rstrip(text) ==
    IF Len(text) > 0 /\ SubSeq(text, Len(text), Len(text)) = " "
        THEN rstrip(SubSeq(text, 1, Len(text) - 1))
        ELSE text

strip(text) == rstrip(lstrip(text))

\* str.lower() on the letters of the model's texts
lower_char(c) ==
    CASE c = "A" -> "a" [] c = "B" -> "b" [] c = "C" -> "c" [] c = "D" -> "d"
      [] c = "E" -> "e" [] c = "F" -> "f" [] c = "G" -> "g" [] c = "H" -> "h"
      [] c = "I" -> "i" [] c = "J" -> "j" [] c = "K" -> "k" [] c = "L" -> "l"
      [] c = "M" -> "m" [] c = "N" -> "n" [] c = "O" -> "o" [] c = "P" -> "p"
      [] c = "Q" -> "q" [] c = "R" -> "r" [] c = "S" -> "s" [] c = "T" -> "t"
      [] c = "U" -> "u" [] c = "V" -> "v" [] c = "W" -> "w" [] c = "X" -> "x"
      [] c = "Y" -> "y" [] c = "Z" -> "z" [] OTHER -> c

RECURSIVE lower(_)
lower(text) ==
    IF Len(text) = 0 THEN text
    ELSE lower_char(SubSeq(text, 1, 1)) \o lower(SubSeq(text, 2, Len(text)))

\* keyword in text
Contains(text, keyword) ==
    \E i \in 1 .. (Len(text) - Len(keyword) + 1) :
        SubSeq(text, i, i + Len(keyword) - 1) = keyword

\* bool(x) of a value returned by CacheManager.get: None and {} are falsy
Truthy(x) == x # PyNone /\ DOMAIN x # {}

\* result.get("error", False)
IsError(result) == "error" \in DOMAIN result /\ result.error

----------------------------------------------------------------------------
(* main.py: the questions of the menu and the reading of an input line *)

\* AdvancedAISystemAdmin.question_categories, by option number
question_categories ==
    [ Performance |->
        [ n \in {"1", "2", "3", "4", "5"} |->
            CASE n = "1" -> "What's my current CPU and memory usage?"
              [] n = "2" -> "Show me the top processes consuming resources"
              [] n = "3" -> "Perform a comprehensive system health check"
              [] n = "4" -> "What's my disk space and I/O performance?"
              [] n = "5" -> "How can I optimize my system performance?" ],
      Security |->
        [ n \in {"6", "7", "8", "9", "10"} |->
            CASE n = "6" -> "Perform a basic security scan"
              [] n = "7" -> "Check for any security concerns or recommendations"
              [] n = "8" -> "What security services are running?"
              [] n = "9" -> "Show me recent security-related events"
              [] n = "10" -> "Are there any open network ports I should know about?" ],
      Troubleshooting |->
        [ n \in {"11", "12", "13", "14", "15"} |->
            CASE n = "11" -> "Are there any recent system errors or warnings?"
              [] n = "12" -> "Help me diagnose a system problem"
              [] n = "13" -> "What services are currently running?"
              [] n = "14" -> "Check system logs for issues"
              [] n = "15" -> "Why is my system running slowly?" ],
      Information |->
        [ n \in {"16", "17", "18", "19", "20"} |->
            CASE n = "16" -> "Show me my network configuration and status"
              [] n = "17" -> "What's my system uptime and basic information?"
              [] n = "18" -> "What software is installed on my system?"
              [] n = "19" -> "Show me system temperature and thermal status"
              [] n = "20" -> "Display battery status (if applicable)" ] ]

\* AdvancedAISystemAdmin.handle_user_input: the question an input line asks
handle_user_input(user_input) ==
    LET stripped == strip(user_input)
        categories == {c \in DOMAIN question_categories :
                          stripped \in DOMAIN question_categories[c]}
    IN  IF categories # {}
            THEN question_categories[CHOOSE c \in categories : TRUE][stripped]
            ELSE stripped

\* the lines typed at the prompt that ask a question
UserInputs == {"foo "}

\* the question each of those lines asks
actual_question == [line \in UserInputs |-> handle_user_input(line)]

Questions == {actual_question[line] : line \in UserInputs}

\* the lines that are neither empty nor a command of run_cli
Commands ==
    {"quit", "exit", "status", "questions", "q", "help", "patterns", "pattern",
     "p", "memory", "m", "collect", "cache"}

IsQuestionLine ==
    [line \in UserInputs |->
        strip(line) # "" /\ lower(strip(line)) \notin Commands]

----------------------------------------------------------------------------
(* core/cache_manager.py *)

\* hashlib.md5(query.encode()).hexdigest(), tabulated on the model's texts
md5_hexdigest(text) ==
    CASE text = "foo"       -> "acbd18db4cc2f85cedef654fccc4a4d8"
      [] text = "foo "      -> "d83d7e46b5a299f6dfd0b80b406c9d4e"
      [] text = ""          -> "d41d8cd98f00b204e9800998ecf8427e"

\* a key derived from the normalised text
_get_cache_key_normalised(query) == md5_hexdigest(strip(query))

_get_cache_key(query) == md5_hexdigest(query)

\* the files data/cache/<key>.json that the model's queries can name
CacheKeys == {_get_cache_key(q) : q \in Queries \cup Questions}

NoFile == [kind |-> "absent"]
Corrupt == [kind |-> "corrupt"]
CacheFile(timestamp, query, result) ==
    [kind |-> "json", timestamp |-> timestamp, query |-> query, result |-> result]

\* json.dump raises TypeError on a value that holds a non-JSON object: the
\* chat_history of a conversational run is a list of message objects
JsonSerializable(result) ==
    ~ ("chat_history" \in DOMAIN result /\ result.chat_history > 0)

\* json.load(json.dump(result)): a tuple comes back as a list
JsonRoundTrip(result) ==
    IF "steps" \in DOMAIN result /\ result.steps = "tuple"
        THEN [result EXCEPT !.steps = "list"]
        ELSE result

\* an entry that expires as soon as its age reaches the ttl
IsExpiredAtTtl(file) == now - file.timestamp >= settings.CACHE_TTL_SECONDS

\* datetime.now() - cached_time > timedelta(seconds=self.ttl_seconds)
IsExpired(file) == now - file.timestamp > settings.CACHE_TTL_SECONDS

\* An io argument names the system call that fails during the operation, if
\* any, and the files it fails on.
IoOk == [fails |-> "none", at |-> {}]
IoFail(call, keys) == [fails |-> call, at |-> keys]
Fails(io, call, key) == io.fails = call /\ key \in io.at

\* a get that removes a file it cannot parse
get_removing_unreadable(dir, query, io) ==
    LET cache_key == _get_cache_key(query)
        file == dir[cache_key]
    IN  IF file.kind = "absent"
            THEN [ret |-> PyNone, dir |-> dir, raised |-> FALSE, branch |-> "absent"]
        ELSE IF file.kind = "corrupt"
            THEN [ret |-> PyNone, dir |-> [dir EXCEPT ![cache_key] = NoFile],
                  raised |-> FALSE, branch |-> "except"]
        ELSE IF Fails(io, "read", cache_key)
            THEN [ret |-> PyNone, dir |-> dir, raised |-> FALSE, branch |-> "except"]
        ELSE IF IsExpired(file)
            THEN IF Fails(io, "remove", cache_key)
                    THEN [ret |-> PyNone, dir |-> dir, raised |-> FALSE,
                          branch |-> "except"]
                    ELSE [ret |-> PyNone,
                          dir |-> [dir EXCEPT ![cache_key] = NoFile],
                          raised |-> FALSE, branch |-> "expired"]
        ELSE [ret |-> file.result, dir |-> dir, raised |-> FALSE, branch |-> "hit"]

\* a get that returns the stored value whatever its age
get_whatever_age(dir, query, io) ==
    LET cache_key == _get_cache_key(query)
        file == dir[cache_key]
    IN  IF file.kind = "absent"
            THEN [ret |-> PyNone, dir |-> dir, raised |-> FALSE, branch |-> "absent"]
        ELSE IF Fails(io, "read", cache_key) \/ file.kind = "corrupt"
            THEN [ret |-> PyNone, dir |-> dir, raised |-> FALSE, branch |-> "except"]
        ELSE [ret |-> file.result, dir |-> dir, raised |-> FALSE, branch |-> "hit"]

\* CacheManager.get: the value returned, the directory afterwards and the
\* return statement reached
get(dir, query, io) ==
    LET cache_key == _get_cache_key(query)
        file == dir[cache_key]
    IN  IF file.kind = "absent"
            THEN [ret |-> PyNone, dir |-> dir, raised |-> FALSE, branch |-> "absent"]
        ELSE IF Fails(io, "read", cache_key) \/ file.kind = "corrupt"
            THEN [ret |-> PyNone, dir |-> dir, raised |-> FALSE, branch |-> "except"]
        ELSE IF IsExpired(file)
            THEN IF Fails(io, "remove", cache_key)
                    THEN [ret |-> PyNone, dir |-> dir, raised |-> FALSE,
                          branch |-> "except"]
                    ELSE [ret |-> PyNone,
                          dir |-> [dir EXCEPT ![cache_key] = NoFile],
                          raised |-> FALSE, branch |-> "expired"]
        ELSE [ret |-> file.result, dir |-> dir, raised |-> FALSE, branch |-> "hit"]

\* a set that leaves an existing file alone
set_if_absent(dir, query, result, io) ==
    LET cache_key == _get_cache_key(query)
    IN  IF dir[cache_key].kind # "absent" \/ Fails(io, "open", cache_key)
            THEN [ret |-> PyNone, dir |-> dir, raised |-> FALSE]
        ELSE IF Fails(io, "write", cache_key) \/ ~ JsonSerializable(result)
            THEN [ret |-> PyNone,
                  dir |-> [dir EXCEPT ![cache_key] = Corrupt],
                  raised |-> FALSE]
        ELSE [ret |-> PyNone,
              dir |-> [dir EXCEPT ![cache_key] =
                          CacheFile(now, query, JsonRoundTrip(result))],
              raised |-> FALSE]

\* CacheManager.set: open(cache_file, 'w') truncates the file, json.dump
\* writes it piece by piece; every exception is passed over
set(dir, query, result, io) ==
    LET cache_key == _get_cache_key(query)
    IN  IF Fails(io, "open", cache_key)
            THEN [ret |-> PyNone, dir |-> dir, raised |-> FALSE]
        ELSE IF Fails(io, "write", cache_key) \/ ~ JsonSerializable(result)
            THEN [ret |-> PyNone,
                  dir |-> [dir EXCEPT ![cache_key] = Corrupt],
                  raised |-> FALSE]
        ELSE [ret |-> PyNone,
              dir |-> [dir EXCEPT ![cache_key] =
                          CacheFile(now, query, JsonRoundTrip(result))],
              raised |-> FALSE]

\* a clear_expired that removes the files it cannot read as well
clear_expired_or_unreadable(dir, io) ==
    IF io.fails = "listdir"
        THEN [ret |-> PyNone, dir |-> dir, raised |-> TRUE]
        ELSE [ret |-> PyNone,
              dir |-> [k \in DOMAIN dir |->
                          IF \/ dir[k].kind = "corrupt"
                             \/ /\ dir[k].kind = "json"
                                /\ ~ Fails(io, "read", k)
                                /\ IsExpired(dir[k])
                                /\ ~ Fails(io, "remove", k)
                          THEN NoFile ELSE dir[k]],
              raised |-> FALSE]

\* CacheManager.clear_expired: os.listdir is outside the try, the work on
\* each file is inside its own try
clear_expired(dir, io) ==
    IF io.fails = "listdir"
        THEN [ret |-> PyNone, dir |-> dir, raised |-> TRUE]
        ELSE [ret |-> PyNone,
              dir |-> [k \in DOMAIN dir |->
                          IF /\ dir[k].kind = "json"
                             /\ ~ Fails(io, "read", k)
                             /\ IsExpired(dir[k])
                             /\ ~ Fails(io, "remove", k)
                          THEN NoFile ELSE dir[k]],
              raised |-> FALSE]

\* CacheManager.clear_all: nothing is caught.  When os.remove fails on a
\* file, the files os.listdir gave before it (io.done) are gone already.
clear_all(dir, io) ==
    LET existing == {k \in DOMAIN dir : dir[k].kind # "absent"}
    IN  IF io.fails = "listdir"
            THEN [ret |-> PyNone, dir |-> dir, raised |-> TRUE]
        ELSE IF io.fails = "remove" /\ io.at \cap existing # {}
            THEN [ret |-> PyNone,
                  dir |-> [k \in DOMAIN dir |->
                              IF k \in io.done \ io.at THEN NoFile ELSE dir[k]],
                  raised |-> TRUE]
        ELSE [ret |-> PyNone, dir |-> [k \in DOMAIN dir |-> NoFile], raised |-> FALSE]

----------------------------------------------------------------------------
(* config/settings.py and core/agent_factory.py *)

\* AgentPattern: the values of the enumeration
AgentPattern ==
    {"react", "plan_execute", "multi_agent", "conversational",
     "structured_chat", "self_ask", "openai_functions"}

\* AgentFactory._pattern_classes: the patterns that have a strategy class
_pattern_classes ==
    {"react", "plan_execute", "multi_agent", "conversational", "self_ask"}

\* ConversationBufferWindowMemory(k=10) of ConversationalAgentPattern
ConversationWindow == 10

Min(a, b) == IF a <= b THEN a ELSE b

\* BaseAgentPattern.__init__ and the subclasses' __init__: a new strategy
\* instance.  memory counts the exchanges the conversational window has saved.
NewAgentPattern(pattern) ==
    [cls |-> pattern, cache_manager |-> settings.ENABLE_CACHING, memory |-> 0]

\* (execute_query and MultiAgentPattern_execute_query return, besides the
\* result ret: the directory afterwards, the instance afterwards, the agents
\* invoked, whether an exception left the method, what the coordinator was
\* given, and the class whose method ran.)

\* what agent.invoke returns: the inputs (with the memory's chat_history for
\* the conversational executor, a list of message objects) and the output
AgentResult(self, query, output) ==
    IF self.cls = "conversational"
        THEN [input |-> query, output |-> output,
              chat_history |-> 2 * Min(self.memory, ConversationWindow)]
        ELSE [input |-> query, output |-> output]

\* an error result that lacks the error flag
ErrorResultUnflagged(cause) ==
    [output |-> "Error executing query: " \o cause, exception |-> cause]

\* the except clause of BaseAgentPattern.execute_query
ErrorResult(cause) ==
    [output |-> "Error executing query: " \o cause, error |-> TRUE, exception |-> cause]

\* the except clause of MultiAgentPattern.execute_query
MultiErrorResult(cause) ==
    [output |-> "Error in multi-agent execution: " \o cause, error |-> TRUE]

\* context=None of execute_query
NoContext == PyNone

\* what agent.invoke({"input": query, **(context or {})}) returns: the keys
\* of the context are among the inputs the executor gives back
WithContext(result, context) ==
    IF context = NoContext THEN result ELSE result @@ context

\* an execute_query that looks in the cache only when no context is given
BaseAgentPattern_execute_query_context_free(self, dir, query, context, env) ==
    LET looked == IF self.cache_manager /\ context = NoContext
                      THEN get(dir, query, env.get_io)
                      ELSE [ret |-> PyNone, dir |-> dir]
    IN  IF self.cache_manager /\ context = NoContext /\ Truthy(looked.ret)
            THEN [ret |-> looked.ret, dir |-> looked.dir, self |-> self,
                  invoked |-> {}, raised |-> FALSE, coordination_input |-> PyNone,
                  by |-> self.cls]
        ELSE IF env.outcome = "create_agent_raises"
            THEN [ret |-> ErrorResult(env.cause), dir |-> looked.dir, self |-> self,
                  invoked |-> {}, raised |-> FALSE, coordination_input |-> PyNone,
                  by |-> self.cls]
        ELSE IF env.outcome = "invoke_raises"
            THEN [ret |-> ErrorResult(env.cause), dir |-> looked.dir, self |-> self,
                  invoked |-> {"agent"}, raised |-> FALSE, coordination_input |-> PyNone,
                  by |-> self.cls]
        ELSE LET result == WithContext(AgentResult(self, query, env.output), context)
             IN  [ret |-> result,
                  dir |-> IF self.cache_manager
                              THEN set(looked.dir, query, result, env.set_io).dir
                              ELSE looked.dir,
                  self |-> IF self.cls = "conversational"
                               THEN [self EXCEPT !.memory = @ + 1]
                               ELSE self,
                  invoked |-> {"agent"}, raised |-> FALSE,
                  coordination_input |-> PyNone, by |-> self.cls]

\* BaseAgentPattern.execute_query(query, context).  env gives what the calls
\* made on the way do: env.get_io and env.set_io the file system under the
\* cache, env.outcome the agent (create_agent raises, agent.invoke raises, or
\* it returns env.output).
BaseAgentPattern_execute_query(self, dir, query, context, env) ==
    LET looked == IF self.cache_manager
                      THEN get(dir, query, env.get_io)
                      ELSE [ret |-> PyNone, dir |-> dir]
    IN  IF self.cache_manager /\ Truthy(looked.ret)
            THEN [ret |-> looked.ret, dir |-> looked.dir, self |-> self,
                  invoked |-> {}, raised |-> FALSE, coordination_input |-> PyNone,
                  by |-> self.cls]
        ELSE IF env.outcome = "create_agent_raises"
            THEN [ret |-> ErrorResult(env.cause), dir |-> looked.dir, self |-> self,
                  invoked |-> {}, raised |-> FALSE, coordination_input |-> PyNone,
                  by |-> self.cls]
        ELSE IF env.outcome = "invoke_raises"
            THEN [ret |-> ErrorResult(env.cause), dir |-> looked.dir, self |-> self,
                  invoked |-> {"agent"}, raised |-> FALSE, coordination_input |-> PyNone,
                  by |-> self.cls]
        ELSE LET result == WithContext(AgentResult(self, query, env.output), context)
             IN  [ret |-> result,
                  dir |-> IF self.cache_manager
                              THEN set(looked.dir, query, result, env.set_io).dir
                              ELSE looked.dir,
                  self |-> IF self.cls = "conversational"
                               THEN [self EXCEPT !.memory = @ + 1]
                               ELSE self,
                  invoked |-> {"agent"}, raised |-> FALSE,
                  coordination_input |-> PyNone, by |-> self.cls]

\* execute_query(actual_question), as run_cli calls it: no context
execute_query(self, dir, query, env) ==
    BaseAgentPattern_execute_query(self, dir, query, NoContext, env)

\* the keyword lists of MultiAgentPattern._determine_relevant_specialists
performance_keywords ==
    {"cpu", "memory", "disk", "performance", "slow", "usage", "resource"}
security_keywords ==
    {"security", "vulnerability", "firewall", "malware", "attack", "breach"}
troubleshooting_keywords ==
    {"error", "problem", "issue", "fix", "troubleshoot", "debug", "crash"}

\* any(keyword in query_lower for keyword in keywords)
AnyKeyword(query_lower, keywords) == \E keyword \in keywords : Contains(query_lower, keyword)

\* a selection that compares the query as typed, without lower()
_determine_relevant_specialists_as_typed(query) ==
    LET specialists ==
            (IF AnyKeyword(query, performance_keywords)
                 THEN <<"performance">> ELSE <<>>)
            \o (IF AnyKeyword(query, security_keywords)
                    THEN <<"security">> ELSE <<>>)
            \o (IF AnyKeyword(query, troubleshooting_keywords)
                    THEN <<"troubleshooting">> ELSE <<>>)
    IN  IF specialists = <<>>
            THEN <<"performance", "security", "troubleshooting">>
            ELSE specialists

\* MultiAgentPattern._determine_relevant_specialists: the list of specialists
_determine_relevant_specialists(query) ==
    LET query_lower == lower(query)
        specialists ==
            (IF AnyKeyword(query_lower, performance_keywords)
                 THEN <<"performance">> ELSE <<>>)
            \o (IF AnyKeyword(query_lower, security_keywords)
                    THEN <<"security">> ELSE <<>>)
            \o (IF AnyKeyword(query_lower, troubleshooting_keywords)
                    THEN <<"troubleshooting">> ELSE <<>>)
    IN  IF specialists = <<>>
            THEN <<"performance", "security", "troubleshooting">>
            ELSE specialists

\* questions that touch the specialists' domains in every combination
SpecialistQuestions ==
    {"hello", "CPU is slow", "firewall rules", "it crashed", "Malware",
     "PROBLEM", "resource", "High memory usage after attack", "fix disk",
     "Security error", "breach issue", "debug slow firewall"}

\* the specialists consulted for each question of the session, tabulated
relevant_specialists_of ==
    [query \in Questions |-> _determine_relevant_specialists(query)]

\* MultiAgentPattern.specialist_agents: the names of the specialists
specialist_agents == {"performance", "security", "troubleshooting"}

\* response["output"] of a specialist's run
SpecialistOutput(name) == name \o " advice"

\* str.title() on a specialist's name
title(name) ==
    CASE name = "performance" -> "Performance"
      [] name = "security" -> "Security"
      [] name = "troubleshooting" -> "Troubleshooting"

\* "\n\n".join(f"{name.title()} Specialist Response:\n{response}" ...)
RECURSIVE JoinResponses(_, _)
JoinResponses(names, responses) ==
    IF names = <<>> THEN ""
    ELSE title(Head(names)) \o " Specialist Response:\n" \o responses[Head(names)]
            \o (IF Len(names) > 1 THEN "\n\n" ELSE "")
            \o JoinResponses(Tail(names), responses)

\* the specialists of a list, in order, that the loop of execute_query
\* invokes: it stops at the first one whose invoke raises
RECURSIVE InvokedUpToFailure(_, _)
InvokedUpToFailure(names, failing) ==
    IF names = <<>> THEN <<>>
    ELSE IF Head(names) \in failing THEN <<Head(names)>>
    ELSE <<Head(names)>> \o InvokedUpToFailure(Tail(names), failing)

Range(seq) == {seq[i] : i \in DOMAIN seq}

\* an execute_query that consults every specialist whatever the question
MultiAgentPattern_execute_query_all(self, dir, query, env) ==
    LET consulted == <<"performance", "security", "troubleshooting">>
        invoked == InvokedUpToFailure(consulted, env.failing)
        specialist_responses == [name \in Range(consulted) |-> SpecialistOutput(name)]
        coordination_input ==
            [input |-> query,
             specialist_responses |-> JoinResponses(consulted, specialist_responses)]
    IN  IF Range(invoked) \cap env.failing # {} \/ env.outcome = "invoke_raises"
            THEN [ret |-> MultiErrorResult(env.cause), dir |-> dir, self |-> self,
                  invoked |-> Range(invoked), raised |-> FALSE,
                  coordination_input |-> PyNone, by |-> "multi_agent"]
        ELSE [ret |-> [output |-> env.output,
                       specialist_responses |-> specialist_responses,
                       coordination_used |-> TRUE],
              dir |-> dir, self |-> self,
              invoked |-> Range(invoked) \cup {"coordinator"}, raised |-> FALSE,
              coordination_input |-> coordination_input, by |-> "multi_agent"]

\* MultiAgentPattern.execute_query.  env.failing are the specialists whose
\* invoke raises, env.outcome what the coordinator's invoke does.
MultiAgentPattern_execute_query(self, dir, query, env) ==
    LET relevant_specialists ==
            IF query \in Questions THEN relevant_specialists_of[query]
                                   ELSE _determine_relevant_specialists(query)
        consulted == SelectSeq(relevant_specialists,
                               LAMBDA name : name \in specialist_agents)
        invoked == InvokedUpToFailure(consulted, env.failing)
        specialist_responses == [name \in Range(consulted) |-> SpecialistOutput(name)]
        coordination_input ==
            [input |-> query,
             specialist_responses |-> JoinResponses(consulted, specialist_responses)]
    IN  IF Range(invoked) \cap env.failing # {}
            THEN [ret |-> MultiErrorResult(env.cause), dir |-> dir, self |-> self,
                  invoked |-> Range(invoked), raised |-> FALSE,
                  coordination_input |-> PyNone, by |-> "multi_agent"]
        ELSE IF env.outcome = "invoke_raises"
            THEN [ret |-> MultiErrorResult(env.cause), dir |-> dir, self |-> self,
                  invoked |-> Range(invoked) \cup {"coordinator"}, raised |-> FALSE,
                  coordination_input |-> coordination_input, by |-> "multi_agent"]
        ELSE [ret |-> [output |-> env.output,
                       specialist_responses |-> specialist_responses,
                       coordination_used |-> TRUE],
              dir |-> dir, self |-> self,
              invoked |-> Range(invoked) \cup {"coordinator"}, raised |-> FALSE,
              coordination_input |-> coordination_input, by |-> "multi_agent"]

----------------------------------------------------------------------------
(* The inputs of the cache operations *)

\* values handed to CacheManager.set
CacheResults ==
    { [output |-> "a1"],
      [output |-> "a2", steps |-> "tuple"],
      [output |-> "a1", chat_history |-> 2] }

GetIo(query) ==
    {IoOk, IoFail("read", {_get_cache_key(query)}),
           IoFail("remove", {_get_cache_key(query)})}

SetIo(query) ==
    {IoOk, IoFail("open", {_get_cache_key(query)}),
           IoFail("write", {_get_cache_key(query)})}

ClearExpiredIo ==
    {IoOk, IoFail("listdir", {})}
        \cup {IoFail(call, {k}) : call \in {"read", "remove"}, k \in CacheKeys}

ClearAllIo ==
    {IoOk, IoFail("listdir", {})}
        \cup {[fails |-> "remove", at |-> {k}, done |-> d] :
                  k \in CacheKeys, d \in SUBSET CacheKeys}

Flip == 1 - last.flip

----------------------------------------------------------------------------
(* Init *)

\* CACHE_TTL_SECONDS is int(os.getenv(...)): any integer
TtlChoices == {-1, 0, 1}

Init ==
    /\ settings \in {[ENABLE_CACHING |-> TRUE, CACHE_TTL_SECONDS |-> ttl] : ttl \in TtlChoices}
                    \cup {[ENABLE_CACHING |-> FALSE, CACHE_TTL_SECONDS |-> 1]}
    /\ cache_dir = [k \in CacheKeys |-> NoFile]
    /\ now = 0
    /\ pc = [main |-> Idle, collector |-> Idle]
    /\ current_pattern = "plan_execute"
    /\ agent_pattern = NewAgentPattern("plan_execute")
    /\ memory_manager = [messages |-> <<>>, interactions |-> <<>>]
    /\ last = [op |-> "init", flip |-> 0]

\* time passes
Tick ==
    /\ now < MaxTime
    /\ now' = now + 1
    /\ UNCHANGED <<pc, settings, cache_dir, current_pattern, agent_pattern, memory_manager, last>>

----------------------------------------------------------------------------
(* The cache manager driven through its own interface *)

\* the files an operation removed: there before it, absent after it
Removed(before, after) ==
    {k \in DOMAIN before : before[k].kind # "absent" /\ after[k].kind = "absent"}

Call_get(query, io) ==
    LET r == get(cache_dir, query, io)
    IN  /\ cache_dir' = r.dir
        /\ last' = [op |-> "get", query |-> query, io |-> io.fails, ret |-> r.ret,
                    raised |-> r.raised, branch |-> r.branch,
                    follows_set |-> (last.op = "set" /\ last.query = query),
                    flip |-> Flip]
        /\ UNCHANGED <<pc, settings, now, current_pattern, agent_pattern, memory_manager>>

Call_set(query, result, io) ==
    LET r == set(cache_dir, query, result, io)
    IN  /\ cache_dir' = r.dir
        /\ last' = [op |-> "set", query |-> query, result |-> result, io |-> io.fails,
                    time |-> now, ret |-> r.ret, raised |-> r.raised, flip |-> Flip]
        /\ UNCHANGED <<pc, settings, now, current_pattern, agent_pattern, memory_manager>>

Call_clear_expired(io) ==
    LET r == clear_expired(cache_dir, io)
    IN  /\ cache_dir' = r.dir
        /\ last' = [op |-> "clear_expired", io |-> io.fails, ret |-> r.ret,
                    raised |-> r.raised, removed |-> Removed(cache_dir, r.dir),
                    flip |-> Flip]
        /\ UNCHANGED <<pc, settings, now, current_pattern, agent_pattern, memory_manager>>

Call_clear_all(io) ==
    LET r == clear_all(cache_dir, io)
    IN  /\ cache_dir' = r.dir
        /\ last' = [op |-> "clear_all", io |-> io.fails, ret |-> r.ret,
                    raised |-> r.raised, removed |-> Removed(cache_dir, r.dir),
                    flip |-> Flip]
        /\ UNCHANGED <<pc, settings, now, current_pattern, agent_pattern, memory_manager>>

CacheGetStep == \E q \in Queries : \E io \in GetIo(q) : Call_get(q, io)
CacheSetStep ==
    \E q \in Queries : \E r \in CacheResults : \E io \in SetIo(q) : Call_set(q, r, io)
CacheClearExpiredStep == \E io \in ClearExpiredIo : Call_clear_expired(io)
CacheClearAllStep == \E io \in ClearAllIo : Call_clear_all(io)

CacheNext ==
    \/ CacheGetStep
    \/ CacheSetStep
    \/ CacheClearExpiredStep
    \/ CacheClearAllStep
    \/ Tick

CacheInit == Init /\ settings.ENABLE_CACHING

CacheSpec == CacheInit /\ [][CacheNext]_vars

----------------------------------------------------------------------------
(* core/memory_manager.py *)

\* the cap of the persisted interaction log
LongTermCap == 1000

\* the first n elements of a list: seq[:n]
FirstN(seq, n) ==
    IF Len(seq) <= n THEN seq ELSE SubSeq(seq, 1, n)

\* the last n elements of a list: seq[-n:]
LastN(seq, n) ==
    IF Len(seq) <= n THEN seq ELSE SubSeq(seq, Len(seq) - n + 1, Len(seq))

\* an add_interaction that does not record again the exchange it recorded
\* last
add_interaction_unless_repeated(self, user_input, ai_response) ==
    LET interaction == [user_input |-> user_input, ai_response |-> ai_response]
        recorded == self.interactions
    IN  IF recorded # <<>> /\ recorded[Len(recorded)] = interaction
            THEN self
        ELSE [ messages |-> self.messages \o <<[human |-> user_input], [ai |-> ai_response]>>,
               interactions |-> LastN(Append(recorded, interaction), LongTermCap) ]

\* MemoryManager.add_interaction
add_interaction(self, user_input, ai_response) ==
    [ messages |-> self.messages \o <<[human |-> user_input], [ai |-> ai_response]>>,
      interactions |->
          LastN(Append(self.interactions,
                       [user_input |-> user_input, ai_response |-> ai_response]),
                LongTermCap) ]

\* ConversationBufferWindowMemory(k=20) of MemoryManager
SessionWindow == 20

\* the whole of chat_memory.messages, with no window
session_window_unbounded(self) == self.messages

\* self.session_memory.buffer: what the window memory hands to a prompt, the
\* last k exchanges of chat_memory.messages
session_window(self) == LastN(self.messages, 2 * SessionWindow)

\* message.content of a HumanMessage or an AIMessage
content(message) ==
    IF "human" \in DOMAIN message THEN message.human ELSE message.ai

\* f"User: {user[:100]}...\nAI: {ai[:100]}...\n\n"
SummaryLines(user, ai) ==
    "User: " \o FirstN(user, 100) \o "...\n" \o "AI: " \o FirstN(ai, 100) \o "...\n\n"

\* the loop of get_session_summary from index i: range(i, stop, 2)
RECURSIVE SummaryFrom(_, _, _)
SummaryFrom(messages, i, stop) ==
    IF i >= stop THEN ""
    ELSE (IF i + 1 < Len(messages)
              THEN SummaryLines(content(messages[i + 1]), content(messages[i + 2]))
              ELSE "")
         \o SummaryFrom(messages, i + 2, stop)

\* MemoryManager.get_session_summary (i counts from 0 as in the code;
\* messages[i] of the code is messages[i + 1] here)
get_session_summary(self) ==
    LET messages == self.messages
    IN  IF messages = <<>>
            THEN "No previous interactions in this session."
        ELSE "Session started with " \o ToString(Len(messages) \div 2)
                \o " interactions:\n"
                \o SummaryFrom(messages, 0, Min(Len(messages), 6))

----------------------------------------------------------------------------
(* main.py: the session *)

\* what the calls made by a query of a base strategy may do
BaseEnvs(query) ==
    {[get_io |-> g, set_io |-> w, outcome |-> "ok", output |-> o, cause |-> "",
      failing |-> {}] :
        g \in {IoOk, IoFail("read", {_get_cache_key(query)})},
        w \in {IoOk, IoFail("write", {_get_cache_key(query)})},
        o \in AgentOutputs}
    \cup
    {[get_io |-> IoOk, set_io |-> IoOk, outcome |-> x, output |-> "", cause |-> c,
      failing |-> {}] :
        x \in {"create_agent_raises", "invoke_raises"}, c \in Causes}

\* what the calls made by a query of the multi-agent strategy may do
MultiEnvs ==
    {[get_io |-> IoOk, set_io |-> IoOk, outcome |-> x, output |-> o, cause |-> c,
      failing |-> f] :
        x \in {"ok", "invoke_raises"}, o \in AgentOutputs, c \in Causes,
        f \in {{}, {"performance"}, {"security"}, {"troubleshooting"},
                specialist_agents}}

\* self.agent_pattern.execute_query(actual_question): the method of the
\* instance's class
Dispatch(self, dir, query, env) ==
    IF self.cls = "multi_agent"
        THEN MultiAgentPattern_execute_query(self, dir, query, env)
        ELSE execute_query(self, dir, query, env)

\* run_cli, one turn of the loop on a line that asks a question
AskQuestion(user_input, env) ==
    LET question == actual_question[user_input]
        r == Dispatch(agent_pattern, cache_dir, question, env)
        response == r.ret.output
    IN  /\ IsQuestionLine[user_input]
        /\ Len(memory_manager.interactions) < MaxInteractions
        /\ cache_dir' = r.dir
        /\ agent_pattern' = r.self
        /\ memory_manager' =
              IF r.raised THEN memory_manager
              ELSE add_interaction(memory_manager, question, response)
        /\ last' = [op |-> "query", query |-> question,
                    strategy |-> r.by,
                    io_ok |-> (env.get_io = IoOk /\ env.set_io = IoOk),
                    outcome |-> env.outcome, cause |-> env.cause,
                    failing |-> env.failing,
                    ret |-> r.ret, raised |-> r.raised, invoked |-> r.invoked,
                    coordination_input |-> r.coordination_input]
        /\ UNCHANGED <<pc, settings, now, current_pattern>>

\* a create_agent_pattern that builds the ReAct strategy for a pattern it does
\* not know
create_agent_pattern_defaulting(pattern, constructs) ==
    IF ~ constructs
        THEN [raised |-> TRUE, instance |-> PyNone, exception |-> "Exception: boom"]
    ELSE IF pattern \notin _pattern_classes
        THEN [raised |-> FALSE, instance |-> NewAgentPattern("react"), exception |-> ""]
    ELSE [raised |-> FALSE, instance |-> NewAgentPattern(pattern), exception |-> ""]

\* AgentFactory.create_agent_pattern: the new instance; constructs says
\* whether the constructor of the strategy class returns
create_agent_pattern(pattern, constructs) ==
    IF pattern \notin _pattern_classes
        THEN [raised |-> TRUE, instance |-> PyNone,
              exception |-> "ValueError: Unsupported agent pattern: " \o pattern]
    ELSE IF ~ constructs
        THEN [raised |-> TRUE, instance |-> PyNone, exception |-> "Exception: boom"]
    ELSE [raised |-> FALSE, instance |-> NewAgentPattern(pattern), exception |-> ""]

\* an initialize_agent that keeps the old instance when the pattern changes
initialize_agent_keeps_instance(pattern, old_instance, built) ==
    [current_pattern |-> pattern, agent_pattern |-> old_instance, raised |-> FALSE]

\* AdvancedAISystemAdmin.initialize_agent, from current_pattern = pattern.
\* built tells what became of the two constructions: "first" (the strategy
\* of the pattern was built), "fallback" (it was not, the ReAct one was) or
\* "none" (neither was, and the second exception leaves the method).
initialize_agent(pattern, old_instance, built) ==
    LET first == create_agent_pattern(pattern, built = "first")
        second == create_agent_pattern("react", built = "fallback")
    IN  IF ~ first.raised
            THEN [current_pattern |-> pattern, agent_pattern |-> first.instance,
                  raised |-> FALSE]
        ELSE IF ~ second.raised
            THEN [current_pattern |-> "react", agent_pattern |-> second.instance,
                  raised |-> FALSE]
        ELSE [current_pattern |-> "react", agent_pattern |-> old_instance,
              raised |-> TRUE]

\* a switch_agent_pattern that initialises the agent whatever the choice
switch_agent_pattern_rebuilding(choice, built) ==
    LET r == initialize_agent(choice, agent_pattern, built)
    IN  /\ current_pattern' = r.current_pattern
        /\ agent_pattern' = r.agent_pattern
        /\ last' = [op |-> "switch", choice |-> choice,
                    changed |-> (choice # current_pattern),
                    built |-> IF choice # current_pattern THEN built ELSE "unchanged",
                    raised |-> r.raised]
        /\ UNCHANGED <<pc, settings, cache_dir, now, memory_manager>>

\* run_cli on 'patterns': AdvancedAISystemAdmin.switch_agent_pattern with the
\* pattern chosen at the prompt
switch_agent_pattern(choice, built) ==
    LET r == IF choice # current_pattern
                 THEN initialize_agent(choice, agent_pattern, built)
                 ELSE [current_pattern |-> current_pattern,
                       agent_pattern |-> agent_pattern, raised |-> FALSE]
    IN  /\ current_pattern' = r.current_pattern
        /\ agent_pattern' = r.agent_pattern
        /\ last' = [op |-> "switch", choice |-> choice,
                    changed |-> (choice # current_pattern),
                    built |-> IF choice # current_pattern THEN built ELSE "unchanged",
                    raised |-> r.raised]
        /\ UNCHANGED <<pc, settings, cache_dir, now, memory_manager>>

\* run_cli on 'cache': AdvancedAISystemAdmin.manage_cache with the action
\* chosen at the prompt and the answer to the confirmation of clear_all
manage_cache(action, confirmed, io) ==
    LET r == IF ~ settings.ENABLE_CACHING
                 THEN [dir |-> cache_dir, raised |-> FALSE]
             ELSE IF action = "clear_expired"
                 THEN clear_expired(cache_dir, io)
             ELSE IF action = "clear_all" /\ confirmed
                 THEN clear_all(cache_dir, io)
             ELSE [dir |-> cache_dir, raised |-> FALSE]
    IN  /\ cache_dir' = r.dir
        /\ UNCHANGED <<pc, settings, now, current_pattern, agent_pattern, memory_manager, last>>

\* collect_data, the body of the background thread: after a collection the
\* expired cache entries are cleared; the thread catches what is raised
collect_data(io) ==
    LET r == IF settings.ENABLE_CACHING
                 THEN clear_expired(cache_dir, io)
                 ELSE [dir |-> cache_dir, raised |-> FALSE]
    IN  /\ cache_dir' = r.dir
        /\ UNCHANGED <<pc, settings, now, current_pattern, agent_pattern, memory_manager, last>>

AskStep ==
    \E user_input \in UserInputs :
        \E env \in IF agent_pattern.cls = "multi_agent"
                       THEN MultiEnvs
                       ELSE BaseEnvs(actual_question[user_input]) :
            AskQuestion(user_input, env)

SwitchStep ==
    \E choice \in _pattern_classes : \E built \in {"first", "fallback", "none"} :
        switch_agent_pattern(choice, built)

ManageCacheStep ==
    \E action \in {"clear_expired", "clear_all", "status"} : \E confirmed \in BOOLEAN :
        \E io \in {IoOk, IoFail("listdir", {})} :
            manage_cache(action, confirmed, io)

CollectStep == \E io \in {IoOk, IoFail("listdir", {})} : collect_data(io)

Next ==
    \/ AskStep
    \/ SwitchStep
    \/ ManageCacheStep
    \/ CollectStep
    \/ Tick

Spec == Init /\ [][Next]_vars

----------------------------------------------------------------------------
(* The reasoning loops: the AgentExecutor each create_agent configures.     *)
(* The executor itself is LangChain's; what the repository decides is its   *)
(* configuration (max_iterations, handle_parsing_errors,                    *)
(* early_stopping_method), and the executor is modelled as that             *)
(* configuration makes it behave.  The language model is a script: what it  *)
(* answers at each step of the loop.                                        *)

\* longest scripted prefix of a model script
MaxPrefix == 1

\* what the language model may answer at a step: a final answer, a text the
\* output parser rejects, an action naming a tool the executor does not have,
\* an action on one of its tools
NonFinal == {"garbage", "unknown_tool", "tool"}
ModelResponses == NonFinal \cup {"final"}

\* a model script: the answers of the first steps, then one answer repeated
ModelScripts ==
    {[prefix |-> p, then |-> t] :
        p \in UNION {[1..n -> NonFinal] : n \in 0..MaxPrefix},
        t \in ModelResponses}

ResponseAt(script, i) ==
    IF i <= Len(script.prefix) THEN script.prefix[i] ELSE script.then

\* AgentExecutor(...) called without max_iterations (SelfAskAgentPattern, the
\* self-ask executor): the executor's default
DefaultMaxIterations == 15

\* max_iterations of a specialist's executor and of the coordinator's
SpecialistMaxIterations == 5
CoordinatorMaxIterations == 3

\* the configuration of an AgentExecutor; handle_parsing_errors defaults to
\* False and early_stopping_method to "force"
AgentExecutor(max_iterations, handle_parsing_errors, early_stopping_method) ==
    [max_iterations |-> max_iterations,
     handle_parsing_errors |-> handle_parsing_errors,
     early_stopping_method |-> early_stopping_method]

\* create_agent of the four strategies that inherit execute_query.
\* self_ask_built: SelfAskAgentPattern found a search tool and
\* create_self_ask_with_search_agent returned; otherwise it falls back to the
\* ReAct executor.
create_agent(cls, self_ask_built) ==
    CASE cls = "react" ->
            AgentExecutor(settings.MAX_ITERATIONS, TRUE, "generate")
      [] cls = "plan_execute" ->
            AgentExecutor(settings.MAX_ITERATIONS * 2, TRUE, "generate")
      [] cls = "conversational" ->
            AgentExecutor(settings.MAX_ITERATIONS, TRUE, "force")
      [] cls = "self_ask" ->
            IF self_ask_built
                THEN AgentExecutor(DefaultMaxIterations, FALSE, "force")
                ELSE AgentExecutor(settings.MAX_ITERATIONS, TRUE, "force")

\* MultiAgentPattern._create_specialist_agent
_create_specialist_agent == AgentExecutor(SpecialistMaxIterations, FALSE, "force")

\* MultiAgentPattern._create_coordinator_agent
_create_coordinator_agent == AgentExecutor(CoordinatorMaxIterations, FALSE, "force")

\* the output of an executor stopped by its iteration limit ("force")
StopMessage == "Agent stopped due to iteration limit or time limit."

\* executor.invoke from step i on, trace being the answers of the steps taken.
\* Past the limit the executor returns the stop message when the method is
\* "force"; an agent built by create_react_agent has no "generate" method and
\* the executor raises.  An unparsable answer is an observation when
\* handle_parsing_errors is set and an exception otherwise; an unknown tool
\* is always an observation.
RECURSIVE invoke(_, _, _, _)
invoke(executor, script, i, trace) ==
    IF i > executor.max_iterations
        THEN IF executor.early_stopping_method = "force"
                 THEN [raised |-> FALSE, output |-> StopMessage, cause |-> "",
                       trace |-> trace]
                 ELSE [raised |-> TRUE, output |-> "",
                       cause |-> "Got unsupported early_stopping_method generate",
                       trace |-> trace]
    ELSE LET response == ResponseAt(script, i)
         IN  IF response = "final"
                 THEN [raised |-> FALSE, output |-> "a1", cause |-> "",
                       trace |-> Append(trace, response)]
             ELSE IF response = "garbage" /\ ~ executor.handle_parsing_errors
                 THEN [raised |-> TRUE, output |-> "",
                       cause |-> "An output parsing error occurred",
                       trace |-> Append(trace, response)]
             ELSE invoke(executor, script, i + 1, Append(trace, response))

\* one loop of a query, as the claims see it
LoopRun(role, executor, script) ==
    LET run == invoke(executor, script, 1, <<>>)
    IN  [role |-> role, executor |-> executor, script |-> script,
         trace |-> run.trace, raised |-> run.raised, output |-> run.output,
         cause |-> run.cause]

\* execute_query of a new instance of one of the four inheriting strategies,
\* its executor driven by the script
RunBase(pattern, script, self_ask_built) ==
    LET self == NewAgentPattern(pattern)
        run == LoopRun("agent", create_agent(pattern, self_ask_built), script)
        env == [get_io |-> IoOk, set_io |-> IoOk,
                outcome |-> IF run.raised THEN "invoke_raises" ELSE "ok",
                output |-> run.output, cause |-> run.cause, failing |-> {}]
        r == execute_query(self, cache_dir, "foo", env)
    IN  /\ cache_dir' = r.dir
        /\ agent_pattern' = r.self
        /\ current_pattern' = pattern
        /\ last' = [op |-> "loop", strategy |-> pattern, runs |-> {run},
                    ret |-> r.ret, raised |-> r.raised]
        /\ UNCHANGED <<pc, settings, now, memory_manager>>

\* execute_query of a new MultiAgentPattern: the selected specialists are
\* driven by one script, the coordinator by another
RunMulti(specialist_script, coordinator_script) ==
    LET self == NewAgentPattern("multi_agent")
        specialist == LoopRun("specialist", _create_specialist_agent, specialist_script)
        coordinator == LoopRun("coordinator", _create_coordinator_agent, coordinator_script)
        env == [get_io |-> IoOk, set_io |-> IoOk,
                outcome |-> IF coordinator.raised THEN "invoke_raises" ELSE "ok",
                output |-> coordinator.output,
                cause |-> IF specialist.raised THEN specialist.cause ELSE coordinator.cause,
                failing |-> IF specialist.raised THEN specialist_agents ELSE {}]
        r == MultiAgentPattern_execute_query(self, cache_dir, "foo", env)
    IN  /\ cache_dir' = r.dir
        /\ agent_pattern' = r.self
        /\ current_pattern' = "multi_agent"
        /\ last' = [op |-> "loop", strategy |-> "multi_agent",
                    runs |-> IF "coordinator" \in r.invoked
                                 THEN {specialist, coordinator}
                                 ELSE {specialist},
                    ret |-> r.ret, raised |-> r.raised]
        /\ UNCHANGED <<pc, settings, now, memory_manager>>

RunBaseStep ==
    \E pattern \in _pattern_classes \ {"multi_agent"} :
        \E script \in ModelScripts : \E self_ask_built \in BOOLEAN :
            RunBase(pattern, script, self_ask_built)

\* the scripts of the coordinator's model: one answer repeated
CoordinatorScripts == {script \in ModelScripts : script.prefix = <<>>}

RunMultiStep ==
    \E specialist_script \in ModelScripts :
        \E coordinator_script \in CoordinatorScripts :
            RunMulti(specialist_script, coordinator_script)

\* Settings.MAX_ITERATIONS is read from the environment
MaxIterationsChoices == {1, 2}

LoopInit ==
    /\ settings \in {[ENABLE_CACHING |-> FALSE, CACHE_TTL_SECONDS |-> 1,
                      MAX_ITERATIONS |-> m] : m \in MaxIterationsChoices}
    /\ cache_dir = [k \in CacheKeys |-> NoFile]
    /\ now = 0
    /\ pc = [main |-> Idle, collector |-> Idle]
    /\ current_pattern = "plan_execute"
    /\ agent_pattern = NewAgentPattern("plan_execute")
    /\ memory_manager = [messages |-> <<>>, interactions |-> <<>>]
    /\ last = [op |-> "init", flip |-> 0]

LoopNext == RunMultiStep \/ RunBaseStep

LoopSpec == LoopInit /\ [][LoopNext]_vars

----------------------------------------------------------------------------
(* Specialist selection on its own: _determine_relevant_specialists applied *)
(* to queries made of a few phrases.                                        *)

\* most phrases in a query
MaxPhrases == 3

Phrases ==
    {"why is my CPU at 100%", "firewall rules look wrong", "hello",
     "it crashed", "prefix"}

PhraseLists == UNION {[1..n -> Phrases] : n \in 1..MaxPhrases}

\* " ".join(phrases)
RECURSIVE JoinPhrases(_)
JoinPhrases(phrases) ==
    IF Len(phrases) = 1 THEN phrases[1]
    ELSE phrases[1] \o " " \o JoinPhrases(Tail(phrases))

\* a session whose next question is made of the phrases
SelectInit ==
    /\ settings = [ENABLE_CACHING |-> TRUE, CACHE_TTL_SECONDS |-> 1]
    /\ cache_dir = [k \in CacheKeys |-> NoFile]
    /\ now = 0
    /\ pc = [main |-> Idle, collector |-> Idle]
    /\ current_pattern = "multi_agent"
    /\ agent_pattern = NewAgentPattern("multi_agent")
    /\ memory_manager = [messages |-> <<>>, interactions |-> <<>>]
    /\ \E phrases \in PhraseLists :
          last = [op |-> "asked", phrases |-> phrases, query |-> JoinPhrases(phrases)]

\* self._determine_relevant_specialists(query) on the question asked
Select ==
    /\ last.op = "asked"
    /\ last' = [op |-> "select", phrases |-> last.phrases, query |-> last.query,
                ret |-> _determine_relevant_specialists(last.query)]
    /\ UNCHANGED <<pc, settings, cache_dir, now, current_pattern, agent_pattern,
                   memory_manager>>

SelectNext == Select

SelectSpec == SelectInit /\ [][SelectNext]_vars

----------------------------------------------------------------------------
(* The tools that reach the host: system_action and live_system_info        *)
(* (core/agent_tools.py) and PlatformUtils.run_command.  What a call did to *)
(* the host is the list of commands it passed to run_command.               *)

\* platform.system().lower()
Platforms == {"linux", "windows"}

\* what subprocess.run(...) does once the call is made: the process ends
\* with a return code (a negative one when a signal killed it), the 30 s
\* pass, or the process cannot be launched
Exited(code, stdout, stderr) ==
    [kind |-> "exit", code |-> code, stdout |-> stdout, stderr |-> stderr]
TimedOut == [kind |-> "timeout"]
LaunchFailed(message) == [kind |-> "error", message |-> message]

\* the argument handed to subprocess.run is an empty list: away from
\* Windows, command.split() of a blank command when shell is False
EmptyArgv(command, shell, platform) ==
    platform # "windows" /\ ~ shell /\ strip(command) = ""

\* a run_command that reports a timeout with the return code of timeout(1)
PlatformUtils_run_command_timeout_124(command, shell, platform, proc) ==
    IF EmptyArgv(command, shell, platform)
        THEN [success |-> FALSE, stdout |-> "",
              stderr |-> "list index out of range", returncode |-> -1]
    ELSE IF proc.kind = "exit"
        THEN [success |-> (proc.code = 0), stdout |-> proc.stdout,
              stderr |-> proc.stderr, returncode |-> proc.code]
    ELSE IF proc.kind = "timeout"
        THEN [success |-> FALSE, stdout |-> "", stderr |-> "Command timed out",
              returncode |-> 124]
    ELSE [success |-> FALSE, stdout |-> "", stderr |-> proc.message,
          returncode |-> -1]

\* PlatformUtils.run_command(command, shell)
PlatformUtils_run_command(command, shell, platform, proc) ==
    IF EmptyArgv(command, shell, platform)
        THEN [success |-> FALSE, stdout |-> "",
              stderr |-> "list index out of range", returncode |-> -1]
    ELSE IF proc.kind = "exit"
        THEN [success |-> (proc.code = 0), stdout |-> proc.stdout,
              stderr |-> proc.stderr, returncode |-> proc.code]
    ELSE IF proc.kind = "timeout"
        THEN [success |-> FALSE, stdout |-> "", stderr |-> "Command timed out",
              returncode |-> -1]
    ELSE [success |-> FALSE, stdout |-> "", stderr |-> proc.message,
          returncode |-> -1]

\* subprocess.run in run_command as the tools see it: exit status 0, another
\* status, a timeout, another exception
RunOutcomes == {"zero", "nonzero", "timeout", "exception"}

ProcOf(outcome) ==
    CASE outcome = "zero" -> Exited(0, "out", "")
      [] outcome = "nonzero" -> Exited(1, "", "err")
      [] outcome = "timeout" -> TimedOut
      [] outcome = "exception" -> LaunchFailed("boom")

\* PlatformUtils.run_command(command), called by the tools with the default
\* shell=True
run_command(command, outcome) ==
    PlatformUtils_run_command(command, TRUE, "linux", ProcOf(outcome))

\* what is typed at "Do you want to proceed? (yes/no): "
Answers == {"yes", "y", "Y", " YES ", "no", "n", "", "yes please", "yep"}

\* the commands and requests the agent passes to the tools
ToolCommands == {"", "  ", "ps", " ps aux", "rm -rf /", "ps ; rm -rf /", "ps; rm x",
              "uptime && reboot"}
Requests == ToolCommands \cup {"CPU usage now", "disk space"}

\* a system_action that takes every answer beginning with y for a yes
system_action_y_prefix(command, typed, eof, outcome) ==
    IF ~ settings.REQUIRE_CONFIRMATION
        THEN LET result == run_command(command, outcome)
             IN  [ret |-> IF result.success
                              THEN "Command executed: " \o result.stdout
                              ELSE "Command failed: " \o result.stderr,
                  run_commands |-> <<command>>]
    ELSE IF eof
        THEN [ret |-> "Error executing system action: EOF when reading a line",
              run_commands |-> <<>>]
    ELSE LET confirmation == strip(lower(typed))
         IN  IF ~ (Len(confirmation) > 0 /\ SubSeq(confirmation, 1, 1) = "y")
                 THEN [ret |-> "System action cancelled by user.",
                       run_commands |-> <<>>]
             ELSE LET result == run_command(command, outcome)
                  IN  [ret |-> IF result.success
                                   THEN "Command executed successfully:\n" \o result.stdout
                                   ELSE "Command failed:\n" \o result.stderr,
                       run_commands |-> <<command>>]

\* system_action(command); typed is what input() returns, eof says that
\* input() raised instead (no terminal)
system_action(command, typed, eof, outcome) ==
    IF ~ settings.REQUIRE_CONFIRMATION
        THEN LET result == run_command(command, outcome)
             IN  [ret |-> IF result.success
                              THEN "Command executed: " \o result.stdout
                              ELSE "Command failed: " \o result.stderr,
                  run_commands |-> <<command>>]
    ELSE IF eof
        THEN [ret |-> "Error executing system action: EOF when reading a line",
              run_commands |-> <<>>]
    ELSE LET confirmation == strip(lower(typed))
         IN  IF confirmation \notin {"yes", "y"}
                 THEN [ret |-> "System action cancelled by user.",
                       run_commands |-> <<>>]
             ELSE LET result == run_command(command, outcome)
                  IN  [ret |-> IF result.success
                                   THEN "Command executed successfully:\n" \o result.stdout
                                   ELSE "Command failed:\n" \o result.stderr,
                       run_commands |-> <<command>>]

\* text up to the first blank
RECURSIVE until_blank(_)
until_blank(text) ==
    IF Len(text) = 0 \/ SubSeq(text, 1, 1) = " " THEN ""
    ELSE SubSeq(text, 1, 1) \o until_blank(SubSeq(text, 2, Len(text)))

\* command.split()[0] if command.split() else ""
command_start(command) == until_blank(lstrip(command))

\* str(settings.ALLOWED_COMMANDS)
AllowedCommandsText == "['ps', 'top', 'free', 'df', 'uptime', 'whoami']"

\* _execute_safe_command
_execute_safe_command(command, outcome) ==
    LET result == run_command(command, outcome)
        ran == [ret |-> IF result.success THEN result.stdout
                        ELSE "Command failed: " \o result.stderr,
                run_commands |-> <<command>>]
    IN  IF ~ settings.SAFE_MODE THEN ran
        ELSE IF command_start(command) \notin settings.ALLOWED_COMMANDS
            THEN [ret |-> "Command '" \o command
                          \o "' is not in the safe commands list: "
                          \o AllowedCommandsText,
                  run_commands |-> <<>>]
        ELSE ran

\* live_system_info: the requests it recognises are answered from psutil,
\* every other one is executed as a command
live_system_info(command_or_request, outcome) ==
    LET request_lower == lower(command_or_request)
        has(word) == Contains(request_lower, word)
        report(name) == [ret |-> name, run_commands |-> <<>>, route |-> name]
    IN  IF has("cpu") /\ has("usage") THEN report("_get_cpu_usage")
        ELSE IF has("memory") \/ has("ram") THEN report("_get_memory_info")
        ELSE IF has("disk") THEN report("_get_disk_info")
        ELSE IF has("process") THEN report("_get_top_processes")
        ELSE IF has("network") THEN report("_get_network_status")
        ELSE IF has("temperature") \/ has("thermal") THEN report("_get_thermal_info")
        ELSE IF has("battery") THEN report("_get_battery_info")
        ELSE LET r == _execute_safe_command(command_or_request, outcome)
             IN  [ret |-> r.ret, run_commands |-> r.run_commands,
                  route |-> "_execute_safe_command"]

\* the agent calls system_action
Call_system_action(command, typed, eof, outcome) ==
    LET r == system_action(command, typed, eof, outcome)
    IN  /\ last' = [op |-> "system_action", command |-> command, typed |-> typed,
                    eof |-> eof, ret |-> r.ret, run_commands |-> r.run_commands]
        /\ UNCHANGED <<pc, settings, cache_dir, now, current_pattern, agent_pattern,
                       memory_manager>>

\* the agent calls live_system_info
Call_live_system_info(command_or_request, outcome) ==
    LET r == live_system_info(command_or_request, outcome)
    IN  /\ last' = [op |-> "live_system_info", command |-> command_or_request,
                    route |-> r.route, ret |-> r.ret,
                    run_commands |-> r.run_commands]
        /\ UNCHANGED <<pc, settings, cache_dir, now, current_pattern, agent_pattern,
                       memory_manager>>

SystemActionStep ==
    \E command \in ToolCommands : \E typed \in Answers : \E eof \in BOOLEAN :
        \E outcome \in RunOutcomes :
            Call_system_action(command, typed, eof, outcome)

LiveSystemInfoStep ==
    \E request \in Requests : \E outcome \in RunOutcomes :
        Call_live_system_info(request, outcome)

\* the settings the tools read
ToolInit ==
    /\ settings \in {[ENABLE_CACHING |-> FALSE, CACHE_TTL_SECONDS |-> 1,
                      REQUIRE_CONFIRMATION |-> c, SAFE_MODE |-> m,
                      ALLOWED_COMMANDS |-> {"ps", "top", "free", "df", "uptime", "whoami"}] :
                        c \in BOOLEAN, m \in BOOLEAN}
    /\ cache_dir = [k \in CacheKeys |-> NoFile]
    /\ now = 0
    /\ pc = [main |-> Idle, collector |-> Idle]
    /\ current_pattern = "plan_execute"
    /\ agent_pattern = NewAgentPattern("plan_execute")
    /\ memory_manager = [messages |-> <<>>, interactions |-> <<>>]
    /\ last = [op |-> "init", flip |-> 0]

ToolNext == SystemActionStep \/ LiveSystemInfoStep

ToolSpec == ToolInit /\ [][ToolNext]_vars

----------------------------------------------------------------------------
(* The factory and the start of a session: AgentFactory.create_agent_pattern *)
(* called with any AgentPattern, and AdvancedAISystemAdmin.__init__, which   *)
(* sets current_pattern to settings.DEFAULT_AGENT_PATTERN, agent_pattern to  *)
(* None and calls initialize_agent.                                          *)

\* AgentFactory.create_agent_pattern(pattern, vector_store)
Call_create_agent_pattern(pattern, constructs) ==
    LET r == create_agent_pattern(pattern, constructs)
    IN  /\ last' = [op |-> "create", pattern |-> pattern, raised |-> r.raised,
                    instance |-> r.instance, exception |-> r.exception]
        /\ UNCHANGED <<pc, settings, cache_dir, now, current_pattern, agent_pattern,
                       memory_manager>>

\* AdvancedAISystemAdmin.__init__ from self.initialize_agent() on; when it
\* raises there is no session
StartSession(built) ==
    LET r == initialize_agent(current_pattern, agent_pattern, built)
    IN  /\ agent_pattern = PyNone
        /\ current_pattern' = r.current_pattern
        /\ agent_pattern' = r.agent_pattern
        /\ last' = [op |-> "initialize", pattern |-> current_pattern,
                    built |-> built, raised |-> r.raised]
        /\ UNCHANGED <<pc, settings, cache_dir, now, memory_manager>>

CreateStep ==
    \E pattern \in AgentPattern : \E constructs \in BOOLEAN :
        Call_create_agent_pattern(pattern, constructs)

StartStep == \E built \in {"first", "fallback", "none"} : StartSession(built)

\* the 'patterns' command of a running session
RunningSwitchStep == agent_pattern # PyNone /\ SwitchStep

\* AdvancedAISystemAdmin.__init__ up to self.agent_pattern = None
FactoryInit ==
    /\ settings \in {[ENABLE_CACHING |-> TRUE, CACHE_TTL_SECONDS |-> 1,
                      DEFAULT_AGENT_PATTERN |-> p] : p \in AgentPattern}
    /\ cache_dir = [k \in CacheKeys |-> NoFile]
    /\ now = 0
    /\ pc = [main |-> Idle, collector |-> Idle]
    /\ current_pattern = settings.DEFAULT_AGENT_PATTERN
    /\ agent_pattern = PyNone
    /\ memory_manager = [messages |-> <<>>, interactions |-> <<>>]
    /\ last = [op |-> "init", flip |-> 0]

FactoryNext == CreateStep \/ StartStep \/ RunningSwitchStep

FactorySpec == FactoryInit /\ [][FactoryNext]_vars

----------------------------------------------------------------------------
(* A long session: one question after another put to the conversational      *)
(* strategy, each answered and recorded by add_interaction.  The questions   *)
(* are numbered by the time they are asked.                                  *)

\* questions asked in the long session
MaxAppends == 1001

\* the question asked at a time
QuestionAt(time) == "q" \o ToString(time)

\* run_cli, one turn of the loop: the n-th question, answered without a
\* failure
LongSessionTurn ==
    LET question == QuestionAt(now)
        env == [get_io |-> IoOk, set_io |-> IoOk, outcome |-> "ok",
                output |-> "a1", cause |-> "", failing |-> {}]
        r == execute_query(agent_pattern, cache_dir, question, env)
    IN  /\ now < MaxAppends
        /\ now' = now + 1
        /\ cache_dir' = r.dir
        /\ agent_pattern' = r.self
        /\ memory_manager' = add_interaction(memory_manager, question, r.ret.output)
        /\ last' = [op |-> "query", query |-> question, strategy |-> r.by,
                    ret |-> r.ret, raised |-> r.raised]
        /\ UNCHANGED <<pc, settings, current_pattern>>

\* a session with caching off whose pattern is conversational
LongSessionInit ==
    /\ settings = [ENABLE_CACHING |-> FALSE, CACHE_TTL_SECONDS |-> 1]
    /\ cache_dir = [k \in CacheKeys |-> NoFile]
    /\ now = 0
    /\ pc = [main |-> Idle, collector |-> Idle]
    /\ current_pattern = "conversational"
    /\ agent_pattern = NewAgentPattern("conversational")
    /\ memory_manager = [messages |-> <<>>, interactions |-> <<>>]
    /\ last = [op |-> "init", flip |-> 0]

LongSessionNext == LongSessionTurn

LongSessionSpec == LongSessionInit /\ [][LongSessionNext]_vars

----------------------------------------------------------------------------
(* memory_manager.py: get_relevant_context, applied to a stored log *)

\* interactions of the stored log
MaxStored == 3

\* largest max_items asked for
MaxItems == 3

\* str.split(): the words of a text, separated by blanks
RECURSIVE split(_)
split(text) ==
    LET rest == lstrip(text)
        word == until_blank(rest)
    IN  IF Len(rest) = 0 THEN <<>>
        ELSE <<word>> \o split(SubSeq(rest, Len(word) + 1, Len(rest)))

\* set(text.lower().split())
word_set(text) == Range(split(lower(text)))

\* relevance of one interaction to the words of a query
relevance(query_words, interaction) ==
    Cardinality(query_words \cap (word_set(interaction.user_input)
                                    \cup word_set(interaction.ai_response)))

\* {**interaction, "relevance_score": relevance}
with_score(interaction, score) ==
    [user_input |-> interaction.user_input, ai_response |-> interaction.ai_response,
     relevance_score |-> score]

\* the interactions of a log that share a word with the query, scored
RECURSIVE relevant_interactions(_, _)
relevant_interactions(query_words, interactions) ==
    IF interactions = <<>> THEN <<>>
    ELSE LET interaction == Head(interactions)
             score == relevance(query_words, interaction)
         IN  (IF score > 0 THEN <<with_score(interaction, score)>> ELSE <<>>)
                 \o relevant_interactions(query_words, Tail(interactions))

\* an item put into a list sorted by descending score, before its equals
RECURSIVE insert_before_equals(_, _)
insert_before_equals(sorted, item) ==
    IF sorted = <<>> THEN <<item>>
    ELSE IF Head(sorted).relevance_score > item.relevance_score
        THEN <<Head(sorted)>> \o insert_before_equals(Tail(sorted), item)
    ELSE <<item>> \o sorted

\* a descending sort that turns equal scores round
RECURSIVE sort_ties_reversed(_)
sort_ties_reversed(items) ==
    IF items = <<>> THEN <<>>
    ELSE insert_before_equals(sort_ties_reversed(SubSeq(items, 1, Len(items) - 1)),
                              items[Len(items)])

\* an item put into a list sorted by descending score, after its equals
RECURSIVE insert_after_equals(_, _)
insert_after_equals(sorted, item) ==
    IF sorted = <<>> THEN <<item>>
    ELSE IF Head(sorted).relevance_score >= item.relevance_score
        THEN <<Head(sorted)>> \o insert_after_equals(Tail(sorted), item)
    ELSE <<item>> \o sorted

\* list.sort(key=lambda x: x["relevance_score"], reverse=True): stable, equal
\* scores stay in the order they had
RECURSIVE sort_by_relevance(_)
sort_by_relevance(items) ==
    IF items = <<>> THEN <<>>
    ELSE insert_after_equals(sort_by_relevance(SubSeq(items, 1, Len(items) - 1)),
                             items[Len(items)])

\* MemoryManager.get_relevant_context
get_relevant_context(self, query, max_items) ==
    LET query_words == word_set(query)
        found == relevant_interactions(query_words, self.interactions)
    IN  FirstN(sort_by_relevance(found), max_items)

\* what was said in the stored interactions
StoredInteractions ==
    { [user_input |-> "cpu load HIGH", ai_response |-> "ok"],
      [user_input |-> "disk full", ai_response |-> "high usage"],
      [user_input |-> "hello", ai_response |-> "hi  there"],
      [user_input |-> "Load", ai_response |-> "cpu is fine"],
      [user_input |-> "high", ai_response |-> "done" ] }

\* the logs get_relevant_context is applied to
StoredLogs ==
    UNION { [1..n -> StoredInteractions] : n \in 0..MaxStored }

\* the queries context is looked up for
ContextQueries == {"CPU high load", " Disk  disk", ""}

\* a session whose log is loaded and that is about to look up context
ContextInit ==
    /\ settings = [ENABLE_CACHING |-> TRUE, CACHE_TTL_SECONDS |-> 1]
    /\ cache_dir = [k \in CacheKeys |-> NoFile]
    /\ now = 0
    /\ pc = [main |-> Idle, collector |-> Idle]
    /\ current_pattern = "plan_execute"
    /\ agent_pattern = NewAgentPattern("plan_execute")
    /\ \E stored \in StoredLogs :
           memory_manager = [messages |-> <<>>, interactions |-> stored]
    /\ \E query \in ContextQueries, max_items \in 0..MaxItems :
           last = [op |-> "asked", query |-> query, max_items |-> max_items]

\* get_contextual_suggestions: self.memory_manager.get_relevant_context(question, ...)
Call_get_relevant_context ==
    /\ last.op = "asked"
    /\ last' = [op |-> "get_relevant_context", query |-> last.query,
                max_items |-> last.max_items,
                ret |-> get_relevant_context(memory_manager, last.query,
                                             last.max_items)]
    /\ UNCHANGED <<pc, settings, cache_dir, now, current_pattern, agent_pattern,
                   memory_manager>>

ContextNext == Call_get_relevant_context

ContextSpec == ContextInit /\ [][ContextNext]_vars

----------------------------------------------------------------------------
(* main.py: one turn of the loop of run_cli, from the line read at the      *)
(* prompt                                                                   *)

\* a loop that tests the line as typed for emptiness
run_cli_branch_untrimmed(line) ==
    LET user_input == strip(line)
    IN  IF line = "" THEN "continue"
        ELSE IF lower(user_input) \in {"quit", "exit"} THEN "quit"
        ELSE IF lower(user_input) = "status" THEN "status"
        ELSE IF lower(user_input) \in {"questions", "q", "help"} THEN "questions"
        ELSE IF lower(user_input) \in {"patterns", "pattern", "p"} THEN "patterns"
        ELSE IF lower(user_input) \in {"memory", "m"} THEN "memory"
        ELSE IF lower(user_input) = "collect" THEN "collect"
        ELSE IF lower(user_input) = "cache" THEN "cache"
        ELSE "question"

\* run_cli: the branch of the loop body a line takes
run_cli_branch(line) ==
    LET user_input == strip(line)
    IN  IF user_input = "" THEN "continue"
        ELSE IF lower(user_input) \in {"quit", "exit"} THEN "quit"
        ELSE IF lower(user_input) = "status" THEN "status"
        ELSE IF lower(user_input) \in {"questions", "q", "help"} THEN "questions"
        ELSE IF lower(user_input) \in {"patterns", "pattern", "p"} THEN "patterns"
        ELSE IF lower(user_input) \in {"memory", "m"} THEN "memory"
        ELSE IF lower(user_input) = "collect" THEN "collect"
        ELSE IF lower(user_input) = "cache" THEN "cache"
        ELSE "question"

\* the lines typed at the prompt
PromptLines == {"", "  ", "foo ", "Status", " m "}

\* the files data/cache/<key>.json that a line which is no command can name
PromptCacheKeys ==
    {_get_cache_key(handle_user_input(line)) :
        line \in {l \in PromptLines : lower(strip(l)) \notin Commands}}

\* the calls of a turn that asks no question do nothing
NoEnv ==
    [get_io |-> IoOk, set_io |-> IoOk, outcome |-> "ok", output |-> "", cause |-> "",
     failing |-> {}]

\* run_cli, one turn of the loop: an empty line, a display command or a
\* question
ReadLine(line, env) ==
    LET branch == run_cli_branch(line)
        question == handle_user_input(strip(line))
        r == Dispatch(agent_pattern, cache_dir, question, env)
    IN  /\ branch \in {"continue", "status", "questions", "memory", "question"}
        /\ IF branch = "question"
               THEN /\ Len(memory_manager.interactions) < MaxInteractions
                    /\ cache_dir' = r.dir
                    /\ agent_pattern' = r.self
                    /\ memory_manager' =
                          IF r.raised THEN memory_manager
                          ELSE add_interaction(memory_manager, question, r.ret.output)
                    /\ last' = [op |-> "line", line |-> line, branch |-> branch,
                                invoked |-> r.invoked, cached |-> r.dir # cache_dir]
               ELSE /\ last' = [op |-> "line", line |-> line, branch |-> branch,
                                invoked |-> {}, cached |-> FALSE]
                    /\ UNCHANGED <<pc, cache_dir, agent_pattern, memory_manager>>
        /\ UNCHANGED <<pc, settings, now, current_pattern>>

ReadLineStep ==
    \E line \in PromptLines :
        \E env \in IF run_cli_branch(line) = "question"
                       THEN BaseEnvs(handle_user_input(strip(line)))
                       ELSE {NoEnv} :
            ReadLine(line, env)

\* run_cli on 'patterns', the choice being a single-agent pattern
PromptSwitchStep ==
    \E choice \in {"react", "conversational"} : switch_agent_pattern(choice, "first")

PromptInit ==
    /\ settings = [ENABLE_CACHING |-> TRUE, CACHE_TTL_SECONDS |-> 1]
    /\ cache_dir = [k \in PromptCacheKeys |-> NoFile]
    /\ now = 0
    /\ pc = [main |-> Idle, collector |-> Idle]
    /\ current_pattern = "plan_execute"
    /\ agent_pattern = NewAgentPattern("plan_execute")
    /\ memory_manager = [messages |-> <<>>, interactions |-> <<>>]
    /\ last = [op |-> "init", flip |-> 0]

PromptNext == ReadLineStep \/ PromptSwitchStep

PromptSpec == PromptInit /\ [][PromptNext]_vars

----------------------------------------------------------------------------
(* SelfAskAgentPattern.create_agent: the specialised executor and the       *)
(* fallback                                                                  *)

\* a create_agent whose construction of the specialised executor has no try
SelfAskAgentPattern_create_agent_unguarded(has_search_tool, constructs, fallback_constructs) ==
    IF has_search_tool /\ constructs
        THEN [raised |-> FALSE, path |-> "specialised",
              executor |-> AgentExecutor(DefaultMaxIterations, FALSE, "force")]
    ELSE IF has_search_tool
        THEN [raised |-> TRUE, path |-> "specialised", executor |-> PyNone]
    ELSE IF fallback_constructs
        THEN [raised |-> FALSE, path |-> "fallback",
              executor |-> AgentExecutor(settings.MAX_ITERATIONS, TRUE, "force")]
    ELSE [raised |-> TRUE, path |-> "fallback", executor |-> PyNone]

\* SelfAskAgentPattern.create_agent.  has_search_tool: a tool named *search*
\* or *external* is registered; constructs: create_self_ask_with_search_agent
\* and AgentExecutor return; fallback_constructs: create_react_agent and
\* AgentExecutor return.
SelfAskAgentPattern_create_agent(has_search_tool, constructs, fallback_constructs) ==
    IF has_search_tool /\ constructs
        THEN [raised |-> FALSE, path |-> "specialised",
              executor |-> AgentExecutor(DefaultMaxIterations, FALSE, "force")]
    ELSE IF fallback_constructs
        THEN [raised |-> FALSE, path |-> "fallback",
              executor |-> AgentExecutor(settings.MAX_ITERATIONS, TRUE, "force")]
    ELSE [raised |-> TRUE, path |-> "fallback", executor |-> PyNone]

\* execute_query of a new SelfAskAgentPattern, the model of the executor it
\* builds driven by the script
RunSelfAsk(has_search_tool, constructs, fallback_constructs, script) ==
    LET self == NewAgentPattern("self_ask")
        created == SelfAskAgentPattern_create_agent(has_search_tool, constructs,
                                                    fallback_constructs)
        run == IF created.raised
                   THEN [raised |-> TRUE, output |-> "", cause |-> "boom"]
                   ELSE LoopRun("agent", created.executor, script)
        env == [get_io |-> IoOk, set_io |-> IoOk,
                outcome |-> IF created.raised THEN "create_agent_raises"
                            ELSE IF run.raised THEN "invoke_raises" ELSE "ok",
                output |-> run.output, cause |-> run.cause, failing |-> {}]
        r == execute_query(self, cache_dir, "foo", env)
    IN  /\ cache_dir' = r.dir
        /\ agent_pattern' = r.self
        /\ current_pattern' = "self_ask"
        /\ last' = [op |-> "self_ask", has_search_tool |-> has_search_tool,
                    constructs |-> constructs,
                    fallback_constructs |-> fallback_constructs,
                    script |-> script, path |-> created.path,
                    executor |-> created.executor,
                    created |-> ~ created.raised, ran |-> ~ run.raised,
                    ret |-> r.ret, raised |-> r.raised]
        /\ UNCHANGED <<pc, settings, now, memory_manager>>

RunSelfAskStep ==
    \E has_search_tool \in BOOLEAN, constructs \in BOOLEAN, fallback_constructs \in BOOLEAN :
        \E script \in ModelScripts :
            RunSelfAsk(has_search_tool, constructs, fallback_constructs, script)

SelfAskInit == LoopInit

SelfAskNext == RunSelfAskStep

SelfAskSpec == SelfAskInit /\ [][SelfAskNext]_vars

----------------------------------------------------------------------------
(* The cache manager shared by two threads: the main thread of run_cli and  *)
(* the daemon thread of start_data_collection_thread, which calls           *)
(* clear_expired.  No lock is taken anywhere; each system call (listdir,    *)
(* exists, open and read, open and write, remove) is one step.              *)

\* the files of the directory: [f for f in os.listdir(...) if f.endswith('.json')]
listdir(dir) == {k \in DOMAIN dir : dir[k].kind # "absent"}

\* os.remove
os_remove(dir, key) == [dir EXCEPT ![key] = NoFile]

\* what a finished call of a thread has done
Done(op, thread, key, ret, raised, removed) ==
    [op |-> op, thread |-> thread, key |-> key, ret |-> ret, raised |-> raised,
     removed |-> removed, removed_at |-> now]

\* CacheManager.get, os.path.exists
Main_get_exists(query) ==
    LET key == _get_cache_key(query)
    IN  /\ pc.main = Idle
        /\ IF cache_dir[key].kind = "absent"
               THEN /\ last' = Done("get", "main", key, PyNone, FALSE, NoFile)
                    /\ UNCHANGED pc
               ELSE /\ pc' = [pc EXCEPT !.main = [at |-> "get_open", key |-> key]]
                    /\ UNCHANGED last
        /\ UNCHANGED <<settings, cache_dir, now, current_pattern, agent_pattern, memory_manager>>

\* CacheManager.get, open, json.load and the expiry check; a file that is
\* gone or unreadable raises into the except clause
Main_get_read ==
    LET key == pc.main.key
        file == cache_dir[key]
    IN  /\ pc.main.at = "get_open"
        /\ IF file.kind = "json" /\ IsExpired(file)
               THEN /\ pc' = [pc EXCEPT !.main = [at |-> "get_remove", key |-> key]]
                    /\ UNCHANGED last
               ELSE /\ pc' = [pc EXCEPT !.main = Idle]
                    /\ last' = Done("get", "main", key,
                                    IF file.kind = "json" THEN JsonRoundTrip(file.result)
                                                          ELSE PyNone,
                                    FALSE, NoFile)
        /\ UNCHANGED <<settings, cache_dir, now, current_pattern, agent_pattern, memory_manager>>

\* CacheManager.get, os.remove of the expired file; FileNotFoundError is
\* caught by the except clause
Main_get_remove ==
    LET key == pc.main.key
    IN  /\ pc.main.at = "get_remove"
        /\ pc' = [pc EXCEPT !.main = Idle]
        /\ cache_dir' = os_remove(cache_dir, key)
        /\ last' = Done("get", "main", key, PyNone, FALSE, cache_dir[key])
        /\ UNCHANGED <<settings, now, current_pattern, agent_pattern, memory_manager>>

\* CacheManager.set
Main_set(query, result) ==
    LET key == _get_cache_key(query)
    IN  /\ pc.main = Idle
        /\ cache_dir' = set(cache_dir, query, result, IoOk).dir
        /\ last' = Done("set", "main", key, PyNone, FALSE, NoFile)
        /\ UNCHANGED <<pc, settings, now, current_pattern, agent_pattern, memory_manager>>

\* CacheManager.clear_all, os.listdir
Main_clear_all_listdir ==
    /\ pc.main = Idle
    /\ IF listdir(cache_dir) = {}
           THEN /\ last' = Done("clear_all", "main", "", PyNone, FALSE, NoFile)
                /\ UNCHANGED pc
           ELSE /\ pc' = [pc EXCEPT !.main = [at |-> "clear_all", todo |-> listdir(cache_dir)]]
                /\ UNCHANGED last
    /\ UNCHANGED <<settings, cache_dir, now, current_pattern, agent_pattern, memory_manager>>

\* CacheManager.clear_all, os.remove of the next listed file;
\* FileNotFoundError leaves the method
Main_clear_all_remove(key) ==
    LET rest == pc.main.todo \ {key}
    IN  /\ pc.main.at = "clear_all"
        /\ key \in pc.main.todo
        /\ IF cache_dir[key].kind = "absent"
               THEN /\ pc' = [pc EXCEPT !.main = Idle]
                    /\ last' = Done("clear_all", "main", key, PyNone, TRUE, NoFile)
                    /\ UNCHANGED cache_dir
               ELSE /\ cache_dir' = os_remove(cache_dir, key)
                    /\ IF rest = {}
                           THEN /\ pc' = [pc EXCEPT !.main = Idle]
                                /\ last' = Done("clear_all", "main", key, PyNone, FALSE,
                                                cache_dir[key])
                           ELSE /\ pc' = [pc EXCEPT !.main = [at |-> "clear_all", todo |-> rest]]
                                /\ UNCHANGED last
        /\ UNCHANGED <<settings, now, current_pattern, agent_pattern, memory_manager>>

\* collect_data of the thread: self.cache_manager.clear_expired(), os.listdir
Collector_listdir ==
    /\ pc.collector = Idle
    /\ settings.ENABLE_CACHING
    /\ listdir(cache_dir) # {}
    /\ pc' = [pc EXCEPT !.collector = [at |-> "clear_expired", todo |-> listdir(cache_dir)]]
    /\ UNCHANGED <<settings, cache_dir, now, current_pattern, agent_pattern, memory_manager, last>>

\* the collector's position once it is done with a file
CollectorAfter(rest) ==
    IF rest = {} THEN Idle ELSE [at |-> "clear_expired", todo |-> rest]

\* clear_expired, open, json.load and the expiry check of the next listed
\* file; a file that is gone or unreadable is skipped
Collector_read(key) ==
    LET rest == pc.collector.todo \ {key}
        file == cache_dir[key]
    IN  /\ pc.collector.at = "clear_expired"
        /\ key \in pc.collector.todo
        /\ IF file.kind = "json" /\ IsExpired(file)
               THEN pc' = [pc EXCEPT !.collector =
                              [at |-> "clear_expired_remove", key |-> key, todo |-> rest]]
               ELSE pc' = [pc EXCEPT !.collector = CollectorAfter(rest)]
        /\ UNCHANGED <<settings, cache_dir, now, current_pattern, agent_pattern, memory_manager, last>>

\* clear_expired, os.remove of the file found expired; FileNotFoundError is
\* caught and the loop continues
Collector_remove ==
    LET key == pc.collector.key
    IN  /\ pc.collector.at = "clear_expired_remove"
        /\ pc' = [pc EXCEPT !.collector = CollectorAfter(pc.collector.todo)]
        /\ cache_dir' = os_remove(cache_dir, key)
        /\ last' = Done("clear_expired", "collector", key, PyNone, FALSE, cache_dir[key])
        /\ UNCHANGED <<settings, now, current_pattern, agent_pattern, memory_manager>>

ThreadsInit ==
    /\ settings \in {[ENABLE_CACHING |-> TRUE, CACHE_TTL_SECONDS |-> ttl] : ttl \in {0, 1}}
    /\ cache_dir = [k \in CacheKeys |-> NoFile]
    /\ now = 0
    /\ pc = [main |-> Idle, collector |-> Idle]
    /\ current_pattern = "plan_execute"
    /\ agent_pattern = NewAgentPattern("plan_execute")
    /\ memory_manager = [messages |-> <<>>, interactions |-> <<>>]
    /\ last = [op |-> "init", flip |-> 0]

MainStep ==
    \/ \E query \in Queries : Main_get_exists(query)
    \/ Main_get_read
    \/ Main_get_remove
    \/ \E query \in Queries : Main_set(query, [output |-> "a1"])
    \/ Main_clear_all_listdir
    \/ \E key \in CacheKeys : Main_clear_all_remove(key)

CollectorStep ==
    \/ Collector_listdir
    \/ \E key \in CacheKeys : Collector_read(key)
    \/ Collector_remove

ThreadsNext == MainStep \/ CollectorStep \/ Tick

ThreadsSpec == ThreadsInit /\ [][ThreadsNext]_vars

----------------------------------------------------------------------------
(* MultiAgentPattern: the tools of each specialist *)

\* get_all_tools: the names of the registered tools
AllTools ==
    {"rag_query", "live_system_info", "system_action", "external_search",
     "system_health_check", "security_scan"}

\* an assignment whose security filter matches every name holding 'system'
_create_specialist_agents_system(tools) ==
    [ performance |-> {tool \in tools : \/ Contains(tool, "live_system")
                                        \/ Contains(tool, "rag_query")},
      security |-> {tool \in tools : \/ Contains(tool, "system")
                                     \/ Contains(tool, "external_search")},
      troubleshooting |-> tools ]

\* MultiAgentPattern._create_specialist_agents: the tools given to the
\* executor of each specialist
_create_specialist_agents(tools) ==
    [ performance |-> {tool \in tools : \/ Contains(tool, "live_system")
                                        \/ Contains(tool, "rag_query")},
      security |-> {tool \in tools : \/ Contains(tool, "system_action")
                                     \/ Contains(tool, "external_search")},
      troubleshooting |-> tools ]

\* MultiAgentPattern.__init__
NewMultiAgentPattern(tools) ==
    [cls |-> "multi_agent", cache_manager |-> settings.ENABLE_CACHING, memory |-> 0,
     tools |-> tools, specialist_tools |-> _create_specialist_agents(tools)]

\* AgentFactory.create_agent_pattern(MULTI_AGENT) with the registered tools
ConstructMultiAgent ==
    /\ last.op = "registered"
    /\ agent_pattern' = NewMultiAgentPattern(last.tools)
    /\ current_pattern' = "multi_agent"
    /\ last' = [op |-> "constructed", tools |-> last.tools]
    /\ UNCHANGED <<pc, settings, cache_dir, now, memory_manager>>

\* the names a model may put after 'Action:'
RequestedTools == AllTools \cup {"shell"}

\* a step of a specialist's loop whose model asks for a tool: the executor
\* runs it if it is one of the tools it was built with and otherwise answers
\* that the tool is not valid
SpecialistAction(name, tool) ==
    /\ agent_pattern.cls = "multi_agent"
    /\ last' = [op |-> "action", specialist |-> name, tool |-> tool,
                invoked |-> tool \in agent_pattern.specialist_tools[name]]
    /\ UNCHANGED <<pc, settings, cache_dir, now, current_pattern, agent_pattern,
                   memory_manager>>

SpecialistActionStep ==
    \E name \in specialist_agents : \E tool \in RequestedTools :
        SpecialistAction(name, tool)

\* any list of the tools may be handed to the constructor
AssignInit ==
    /\ settings = [ENABLE_CACHING |-> TRUE, CACHE_TTL_SECONDS |-> 1]
    /\ cache_dir = [k \in CacheKeys |-> NoFile]
    /\ now = 0
    /\ pc = [main |-> Idle, collector |-> Idle]
    /\ current_pattern = "plan_execute"
    /\ agent_pattern = NewAgentPattern("plan_execute")
    /\ memory_manager = [messages |-> <<>>, interactions |-> <<>>]
    /\ \E tools \in SUBSET AllTools : last = [op |-> "registered", tools |-> tools]

AssignNext == ConstructMultiAgent \/ SpecialistActionStep

AssignSpec == AssignInit /\ [][AssignNext]_vars

----------------------------------------------------------------------------
(* agent_tools.py: what a tool does when a call it makes raises *)

\* the calls in the body of each tool whose exception would reach the tool
\* itself, in the order the body makes them (_get_uptime_info,
\* _check_open_ports and run_command catch their own exceptions;
\* external_search only formats a string)
tool_calls(tool) ==
    CASE tool = "rag_query" -> <<"_vector_store.query_similar", "_llm.invoke">>
      [] tool = "live_system_info" -> <<"psutil">>
      [] tool = "system_action" -> <<"input">>
      [] tool = "external_search" -> <<>>
      [] tool = "system_health_check" ->
            <<"_get_cpu_usage", "_get_memory_info", "_get_disk_info",
              "_get_network_status">>
      [] tool = "security_scan" -> <<"_check_security_services">>

\* the message of the except clause of each tool
error_prefix(tool) ==
    CASE tool = "rag_query" -> "Error querying system information: "
      [] tool = "live_system_info" -> "Error getting live system information: "
      [] tool = "system_action" -> "Error executing system action: "
      [] tool = "system_health_check" -> "Error performing health check: "
      [] tool = "security_scan" -> "Error performing security scan: "
      [] OTHER -> ""

\* tools whose body, but for the health check, is inside try/except Exception
has_try_but_health_check(tool) ==
    tool \in {"rag_query", "live_system_info", "system_action", "security_scan"}

\* the tools whose body is inside try/except Exception
has_try(tool) ==
    tool \in {"rag_query", "live_system_info", "system_action", "system_health_check",
              "security_scan"}

\* one invocation of a tool by the loop; failing is the call of the body that
\* raises Exception(cause), if it is one of them
invoke_tool(tool, failing, cause) ==
    LET calls == tool_calls(tool)
        made == InvokedUpToFailure(calls, {failing})
    IN  IF failing \notin Range(calls)
            THEN [raised |-> FALSE, ret |-> "result of " \o tool, made |-> made]
        ELSE IF has_try(tool)
            THEN [raised |-> FALSE, ret |-> error_prefix(tool) \o cause, made |-> made]
        ELSE [raised |-> TRUE, ret |-> "", made |-> made]

\* every call a tool body makes, and none
BodyCalls == UNION {Range(tool_calls(tool)) : tool \in AllTools} \cup {"none"}

\* str(e) of the exceptions raised inside a tool
ToolCauses == {"boom", "EOF when reading a line", ""}

\* the loop runs a tool
InvokeTool(tool, failing, cause) ==
    LET r == invoke_tool(tool, failing, cause)
    IN  /\ last' = [op |-> "tool", tool |-> tool, failing |-> failing, cause |-> cause,
                    ret |-> r.ret, raised |-> r.raised, made |-> r.made]
        /\ UNCHANGED <<pc, settings, cache_dir, now, current_pattern, agent_pattern,
                       memory_manager>>

InvokeToolStep ==
    \E tool \in AllTools : \E failing \in BodyCalls : \E cause \in ToolCauses :
        InvokeTool(tool, failing, cause)

ToolFailInit == ToolInit

ToolFailNext == InvokeToolStep

ToolFailSpec == ToolFailInit /\ [][ToolFailNext]_vars

----------------------------------------------------------------------------
(* main.py: a session of questions and pattern switches *)

SwitchInit ==
    /\ settings = [ENABLE_CACHING |-> TRUE, CACHE_TTL_SECONDS |-> 1]
    /\ cache_dir = [k \in CacheKeys |-> NoFile]
    /\ now = 0
    /\ pc = [main |-> Idle, collector |-> Idle]
    /\ current_pattern = "plan_execute"
    /\ agent_pattern = NewAgentPattern("plan_execute")
    /\ memory_manager = [messages |-> <<>>, interactions |-> <<>>]
    /\ last = [op |-> "init", flip |-> 0]

SwitchNext == AskStep \/ SwitchStep

SwitchSpec == SwitchInit /\ [][SwitchNext]_vars

----------------------------------------------------------------------------
(* agent_factory.py: the multi-agent strategy on questions of every domain *)

\* self.agent_pattern.execute_query(actual_question) on a multi-agent instance
AskSpecialists(query, env) ==
    LET r == MultiAgentPattern_execute_query(agent_pattern, cache_dir, query, env)
    IN  /\ agent_pattern.cls = "multi_agent"
        /\ last' = [op |-> "specialists", query |-> query, failing |-> env.failing,
                    outcome |-> env.outcome, ret |-> r.ret, invoked |-> r.invoked,
                    raised |-> r.raised, coordination_input |-> r.coordination_input]
        /\ cache_dir' = r.dir
        /\ agent_pattern' = r.self
        /\ UNCHANGED <<pc, settings, now, current_pattern, memory_manager>>

AskSpecialistsStep ==
    \E query \in SpecialistQuestions, env \in MultiEnvs : AskSpecialists(query, env)

SpecialistsInit ==
    /\ settings = [ENABLE_CACHING |-> TRUE, CACHE_TTL_SECONDS |-> 1]
    /\ cache_dir = [k \in CacheKeys |-> NoFile]
    /\ now = 0
    /\ pc = [main |-> Idle, collector |-> Idle]
    /\ current_pattern = "multi_agent"
    /\ agent_pattern = NewAgentPattern("multi_agent")
    /\ memory_manager = [messages |-> <<>>, interactions |-> <<>>]
    /\ \E query \in SpecialistQuestions : last = [op |-> "typed", query |-> query]

SpecialistsNext == AskSpecialistsStep

SpecialistsSpec == SpecialistsInit /\ [][SpecialistsNext]_vars

----------------------------------------------------------------------------
(* utils/platform_utils.py: run_command on its own *)

\* the commands handed to run_command
RunCommands == {"", "  ", "ps", "ps aux", "nosuchtool"}

\* what the operating system does with the call.  The messages are those of
\* the exceptions subprocess.run raises when the process cannot be started.
Procs ==
    {Exited(0, "out", ""), Exited(0, "", "warning"), Exited(1, "", "err"),
     Exited(1, "out", ""), Exited(127, "", "nosuchtool: not found"),
     Exited(-1, "", ""), Exited(-9, "", ""),
     TimedOut,
     LaunchFailed("[Errno 2] No such file or directory: 'nosuchtool'"),
     LaunchFailed("[Errno 13] Permission denied: 'ps'"),
     LaunchFailed("embedded null byte"),
     LaunchFailed("[Errno 12] Cannot allocate memory")}

Call_run_command(command, shell, platform, proc) ==
    /\ last' = [op |-> "run_command", command |-> command, shell |-> shell,
                platform |-> platform, proc |-> proc, raised |-> FALSE,
                ret |-> PlatformUtils_run_command(command, shell, platform, proc)]
    /\ UNCHANGED <<pc, settings, cache_dir, now, current_pattern, agent_pattern,
                   memory_manager>>

RunCommandStep ==
    \E command \in RunCommands, shell \in BOOLEAN, platform \in Platforms,
       proc \in Procs :
        Call_run_command(command, shell, platform, proc)

RunInit == ToolInit

RunNext == RunCommandStep

RunSpec == RunInit /\ [][RunNext]_vars

----------------------------------------------------------------------------
(* The cache manager driven through its interface, with a record of the     *)
(* sets that succeeded: last.written gives, for each query, the value       *)
(* passed to the most recent set of it whose file was written in full, and  *)
(* the time of that set.                                                    *)

\* the file of the query was opened and json.dump wrote all of it
SetSucceeded(query, result, io) ==
    LET cache_key == _get_cache_key(query)
    IN  /\ ~ Fails(io, "open", cache_key)
        /\ ~ Fails(io, "write", cache_key)
        /\ JsonSerializable(result)

Recorded_get(query, io) ==
    LET r == get(cache_dir, query, io)
    IN  /\ cache_dir' = r.dir
        /\ last' = [op |-> "get", query |-> query, time |-> now, ret |-> r.ret,
                    raised |-> r.raised, written |-> last.written]
        /\ UNCHANGED <<pc, settings, now, current_pattern, agent_pattern, memory_manager>>

Recorded_set(query, result, io) ==
    LET r == set(cache_dir, query, result, io)
    IN  /\ cache_dir' = r.dir
        /\ last' = [op |-> "set", query |-> query, ret |-> r.ret, raised |-> r.raised,
                    written |->
                        IF SetSucceeded(query, result, io)
                            THEN [last.written EXCEPT
                                     ![query] = [value |-> result, time |-> now]]
                            ELSE last.written]
        /\ UNCHANGED <<pc, settings, now, current_pattern, agent_pattern, memory_manager>>

Recorded_clear(op, io) ==
    LET r == IF op = "clear_all" THEN clear_all(cache_dir, io)
                                 ELSE clear_expired(cache_dir, io)
    IN  /\ cache_dir' = r.dir
        /\ last' = [op |-> op, query |-> "", ret |-> r.ret, raised |-> r.raised,
                    written |-> last.written]
        /\ UNCHANGED <<pc, settings, now, current_pattern, agent_pattern, memory_manager>>

RecordedGetStep == \E q \in Queries : \E io \in GetIo(q) : Recorded_get(q, io)
RecordedSetStep ==
    \E q \in Queries : \E r \in CacheResults : \E io \in SetIo(q) : Recorded_set(q, r, io)
RecordedClearExpiredStep == \E io \in ClearExpiredIo : Recorded_clear("clear_expired", io)
RecordedClearAllStep == \E io \in ClearAllIo : Recorded_clear("clear_all", io)

RecordedInit ==
    /\ settings \in {[ENABLE_CACHING |-> TRUE, CACHE_TTL_SECONDS |-> ttl] :
                        ttl \in TtlChoices}
    /\ cache_dir = [k \in CacheKeys |-> NoFile]
    /\ now = 0
    /\ pc = [main |-> Idle, collector |-> Idle]
    /\ current_pattern = "plan_execute"
    /\ agent_pattern = NewAgentPattern("plan_execute")
    /\ memory_manager = [messages |-> <<>>, interactions |-> <<>>]
    /\ last = [op |-> "init", written |-> [q \in Queries |-> PyNone]]

RecordedNext ==
    \/ RecordedGetStep
    \/ RecordedSetStep
    \/ RecordedClearExpiredStep
    \/ RecordedClearAllStep
    \/ Tick

RecordedSpec == RecordedInit /\ [][RecordedNext]_vars

----------------------------------------------------------------------------
(* agent_factory.py: execute_query of the strategies that inherit it, called *)
(* with contexts, over one cache directory.  last.cached gives, for each     *)
(* query, the call whose result was last written to the cache.               *)

\* the strategies whose execute_query is BaseAgentPattern.execute_query
CachingStrategies == _pattern_classes \ {"multi_agent"}

\* the question put to the strategies
SharedQueries == {"foo"}

\* the context argument of execute_query
Contexts == {NoContext, [user |-> "alice"], [user |-> "bob"]}

\* execute_query(query, context) on an instance of a strategy
Call_execute_query(strategy, query, context, env) ==
    LET self == NewAgentPattern(strategy)
        file == cache_dir[_get_cache_key(query)]
        r == BaseAgentPattern_execute_query(self, cache_dir, query, context, env)
        wrote == /\ r.invoked = {"agent"}
                 /\ ~ IsError(r.ret)
                 /\ SetSucceeded(query, r.ret, env.set_io)
    IN  /\ cache_dir' = r.dir
        /\ last' = [op |-> "execute_query", strategy |-> strategy, query |-> query,
                    context |-> context, ret |-> r.ret, invoked |-> r.invoked,
                    found |-> file,
                    usable |-> (/\ file.kind = "json"
                                /\ ~ IsExpired(file)
                                /\ env.get_io = IoOk),
                    unchanged |-> (r.dir = cache_dir),
                    cached |-> IF wrote
                                   THEN [last.cached EXCEPT ![query] =
                                            [strategy |-> strategy, context |-> context]]
                                   ELSE last.cached]
        /\ UNCHANGED <<pc, settings, now, current_pattern, agent_pattern, memory_manager>>

ExecuteQueryStep ==
    \E strategy \in CachingStrategies, query \in SharedQueries, context \in Contexts :
        \E env \in BaseEnvs(query) : Call_execute_query(strategy, query, context, env)

SharedCacheInit ==
    /\ settings \in {[ENABLE_CACHING |-> TRUE, CACHE_TTL_SECONDS |-> ttl] : ttl \in {0, 1}}
    /\ cache_dir = [k \in CacheKeys |-> NoFile]
    /\ now = 0
    /\ pc = [main |-> Idle, collector |-> Idle]
    /\ current_pattern = "plan_execute"
    /\ agent_pattern = NewAgentPattern("plan_execute")
    /\ memory_manager = [messages |-> <<>>, interactions |-> <<>>]
    /\ last = [op |-> "init", cached |-> [q \in SharedQueries |-> PyNone]]

SharedCacheNext == ExecuteQueryStep \/ Tick

SharedCacheSpec == SharedCacheInit /\ [][SharedCacheNext]_vars

----------------------------------------------------------------------------
(* Claims about the strategies and the session, checked under Spec *)

\* a step of Spec in which a question was put to the strategy
QueryRan ==
    /\ last'.op = "query"
    /\ (last' # last \/ memory_manager' # memory_manager)

\* a step of Spec in which the 'patterns' command ran
SwitchRan ==
    /\ last'.op = "switch"
    /\ (last' # last \/ agent_pattern' # agent_pattern
            \/ current_pattern' # current_pattern)

\* caching is enabled and the cache holds an unexpired entry for the query
CachedUnexpired(query) ==
    LET file == cache_dir[_get_cache_key(query)]
    IN  /\ settings.ENABLE_CACHING
        /\ file.kind = "json"
        /\ now - file.timestamp <= settings.CACHE_TTL_SECONDS

\* the specialists selected for the last question
SelectedSpecialists(query) == Range(relevant_specialists_of[query])

\* C1: for every strategy, execute_query(q) with caching enabled and an
\* unexpired cache entry for q returns the cached result unmodified and
\* invokes no agent, specialist or coordinator (hence no model and no tool).
\* Stated for the queries whose file accesses succeed.
C1_CacheHitSkipsModel ==
    [][ (QueryRan /\ last'.io_ok /\ CachedUnexpired(last'.query)) =>
          /\ last'.ret = cache_dir[_get_cache_key(last'.query)].result
          /\ last'.invoked = {} ]_vars

\* C2: in a multi-specialist query where exactly one selected specialist
\* raises, the result is not an error, its specialist_responses hold the
\* outputs of every other selected specialist, and the coordinator is given
\* the responses without the failed one.
C2_SpecialistFailureIsolated ==
    ( /\ last.op = "query"
      /\ last.strategy = "multi_agent"
      /\ last.outcome = "ok"
      /\ Cardinality(last.failing \cap SelectedSpecialists(last.query)) = 1 ) =>
        /\ ~ IsError(last.ret)
        /\ "specialist_responses" \in DOMAIN last.ret
        /\ DOMAIN last.ret.specialist_responses =
              SelectedSpecialists(last.query) \ last.failing
        /\ last.coordination_input # PyNone

\* C3: in a multi-specialist query where every selected specialist fails the
\* coordinator still runs and the result is not an error; the result is an
\* error only when the coordinator's own call raises.
C3_CoordinatorRunsWhenAllFail ==
    (last.op = "query" /\ last.strategy = "multi_agent") =>
        /\ (SelectedSpecialists(last.query) \subseteq last.failing) =>
              /\ "coordinator" \in last.invoked
              /\ last.outcome = "ok" => ~ IsError(last.ret)
        /\ IsError(last.ret) => last.outcome = "invoke_raises"

\* the agent run of the last question failed: a base strategy whose
\* create_agent or invoke raised on a cache miss, ...
BaseRunFailed ==
    /\ last'.strategy # "multi_agent"
    /\ last'.outcome # "ok"
    /\ ~ CachedUnexpired(last'.query)

\* ... or the multi-agent strategy with a selected specialist or the
\* coordinator raising
MultiRunFailed ==
    /\ last'.strategy = "multi_agent"
    /\ \/ last'.failing \cap SelectedSpecialists(last'.query) # {}
       \/ last'.outcome # "ok"

\* C4 as stated: every execute_query returns one result and never raises; a
\* failure of the model or of the agent run is returned as a result with
\* error = true whose output is "Error executing query: <cause>".
C4_AsStated ==
    [][ QueryRan =>
          /\ ~ last'.raised
          /\ last'.ret # PyNone
          /\ (BaseRunFailed \/ MultiRunFailed) =>
                /\ IsError(last'.ret)
                /\ last'.ret.output = "Error executing query: " \o last'.cause ]_vars

\* C4 amended: every execute_query returns one result and never raises; a
\* failure of the model or of the agent run is returned as a result with
\* error = true, whose output is "Error executing query: <cause>" from the
\* four strategies that inherit execute_query and "Error in multi-agent
\* execution: <cause>" from the multi-agent strategy; a run without failure
\* returns a result that is not an error.
C4_ErrorsReturned ==
    [][ QueryRan =>
          /\ ~ last'.raised
          /\ last'.ret # PyNone
          /\ "output" \in DOMAIN last'.ret
          /\ BaseRunFailed =>
                /\ IsError(last'.ret)
                /\ last'.ret.output = "Error executing query: " \o last'.cause
          /\ MultiRunFailed =>
                /\ IsError(last'.ret)
                /\ last'.ret.output = "Error in multi-agent execution: " \o last'.cause
          /\ ~ (BaseRunFailed \/ MultiRunFailed) => ~ IsError(last'.ret) ]_vars

\* C4 witness: the multi-agent strategy has just returned the failure of a run
\* as an error result.
C4_Witness ==
    /\ last.op = "query"
    /\ last.strategy = "multi_agent"
    /\ ~ last.raised
    /\ IsError(last.ret)
    /\ last.ret.output = "Error in multi-agent execution: boom"

\* C5: on a cache miss with caching enabled, execute_query writes its result
\* to the cache before returning if and only if the result is not an error:
\* a successful result is the entry of the query afterwards, an error result
\* creates or replaces nothing.  Stated for the queries whose file accesses
\* succeed.
C5_WriteThroughIffSuccess ==
    [][ ( /\ QueryRan
          /\ last'.io_ok
          /\ settings.ENABLE_CACHING
          /\ ~ CachedUnexpired(last'.query) ) =>
          LET key == _get_cache_key(last'.query)
          IN  /\ ~ IsError(last'.ret) =>
                    cache_dir'[key] = CacheFile(now, last'.query, last'.ret)
              /\ IsError(last'.ret) => cache_dir'[key] \in {cache_dir[key], NoFile} ]_vars

----------------------------------------------------------------------------
(* Claims about the cache manager, checked under CacheSpec *)

\* a step of CacheSpec in which get(query) ran
GetRan == last' # last /\ last'.op = "get"

KeyOfLastGet == _get_cache_key(last'.query)

\* C7: a cache entry is expired exactly when now - timestamp > ttl.  get on an
\* entry of age at most ttl returns its value and leaves it stored; get on an
\* expired entry returns the miss that a query never set gets (None), and the
\* file is gone when it returns, also with a ttl of zero or less.  This is
\* what get does when its file operations succeed; when reading the file or
\* removing the stale file fails, get returns a miss and the file stays as it
\* was.  get touches no other file.
C7_ExpiryRule ==
    [][ (GetRan /\ cache_dir[KeyOfLastGet].kind = "json") =>
          LET file == cache_dir[KeyOfLastGet]
              age == now - file.timestamp
              others == \A k \in CacheKeys \ {KeyOfLastGet} : cache_dir'[k] = cache_dir[k]
          IN  /\ others
              /\ (age <= settings.CACHE_TTL_SECONDS /\ last'.io # "read") =>
                    /\ last'.ret = file.result
                    /\ cache_dir' = cache_dir
              /\ (age > settings.CACHE_TTL_SECONDS /\ last'.io = "none") =>
                    /\ last'.ret = PyNone
                    /\ cache_dir'[KeyOfLastGet] = NoFile
              /\ (last'.io = "read"
                    \/ (age > settings.CACHE_TTL_SECONDS /\ last'.io = "remove")) =>
                    /\ last'.ret = PyNone
                    /\ cache_dir' = cache_dir ]_vars

\* C7 witness: with a ttl of zero or less, get has just found an expired
\* entry, returned a miss and removed the file.
C7_Witness ==
    /\ last.op = "get"
    /\ last.branch = "expired"
    /\ last.ret = PyNone
    /\ settings.CACHE_TTL_SECONDS <= 0
    /\ cache_dir[_get_cache_key(last.query)] = NoFile

\* a step in which get(q) ran right after set(q, r), no operation in between
\* and the ttl not elapsed since the set
GetRightAfterSet ==
    /\ last.op = "set"
    /\ GetRan
    /\ last'.query = last.query
    /\ now - last.time <= settings.CACHE_TTL_SECONDS

GetOrSetRan == last' # last /\ last'.op \in {"get", "set"}

\* C9: a set of one query, or a get of it (which removes its entry when it is
\* expired), never changes what get returns for a query with another text.
C9_KeysIndependent ==
    [][ GetOrSetRan =>
          \A other \in Queries \ {last'.query} :
              get(cache_dir', other, IoOk).ret = get(cache_dir, other, IoOk).ret ]_vars

\* C9 witness: "foo " has just been set while "foo" holds another result, and
\* each query still reads its own.
C9_Witness ==
    /\ last.op = "set"
    /\ last.query = "foo "
    /\ get(cache_dir, "foo", IoOk).ret = [output |-> "a1"]
    /\ get(cache_dir, "foo ", IoOk).ret = [output |-> "a2", steps |-> "list"]

\* C10: a storage failure inside get, set, clear_expired or clear_all is
\* swallowed: the operation returns normally, nothing is raised to the caller.
C10_FailuresSwallowed ==
    last.op \in {"get", "set", "clear_expired", "clear_all"} => ~ last.raised

----------------------------------------------------------------------------
(* Claims about the reasoning loops, checked under LoopSpec *)

\* the model of the script only ever asks for one of the executor's tools
OnlyToolActions(script) ==
    /\ script.then = "tool"
    /\ \A i \in 1..Len(script.prefix) : script.prefix[i] = "tool"

\* C11: a reasoning loop whose model never produces a final answer (here:
\* keeps asking for tools) stops after exactly max_iterations steps, and the
\* query returns a result that is not an error and carries the early-stop
\* marker.
C11_LoopStopsAtBudget ==
    (last.op = "loop" /\ \A run \in last.runs : OnlyToolActions(run.script)) =>
        /\ \A run \in last.runs :
              /\ Len(run.trace) = run.executor.max_iterations
              /\ ~ run.raised
              /\ run.output = StopMessage
        /\ ~ last.raised
        /\ ~ IsError(last.ret)

\* the script gives its final answer at step k, after only answers that are
\* unparsable or name an unknown tool, within the executor's budget
RecoversThenFinal(run) ==
    /\ run.script.then = "final"
    /\ \A i \in 1..Len(run.script.prefix) :
          run.script.prefix[i] \in {"garbage", "unknown_tool"}
    /\ Len(run.script.prefix) + 1 <= run.executor.max_iterations

\* C12: in every loop the core runs, an unparsable answer or an action on an
\* unknown tool is an observation of the loop: it uses one step, the loop goes
\* on to the final answer, and the query does not become an error.
C12_ParsingErrorsRecovered ==
    (last.op = "loop" /\ \A run \in last.runs : RecoversThenFinal(run)) =>
        /\ \A run \in last.runs :
              /\ ~ run.raised
              /\ Len(run.trace) = Len(run.script.prefix) + 1
              /\ run.output = "a1"
        /\ ~ IsError(last.ret)

----------------------------------------------------------------------------
(* Claims about the specialist selection, checked under SelectSpec *)

\* the domains whose keyword list has a word in each phrase, read off the
\* keyword lists by hand: "cpu"; "firewall"; none; "crash"; "fix" in "prefix"
PhraseDomains ==
    [phrase \in Phrases |->
        CASE phrase = "why is my CPU at 100%" -> {"performance"}
          [] phrase = "firewall rules look wrong" -> {"security"}
          [] phrase = "hello" -> {}
          [] phrase = "it crashed" -> {"troubleshooting"}
          [] phrase = "prefix" -> {"troubleshooting"}]

\* C13: the specialists selected are exactly the domains whose keyword list
\* has a case-insensitive substring match in the query, all three when there
\* is no match; the selection is never empty and names no domain twice.
C13_SelectionByKeyword ==
    last.op = "select" =>
        LET matched == UNION {PhraseDomains[last.phrases[i]] : i \in 1..Len(last.phrases)}
        IN  /\ Range(last.ret) = IF matched = {} THEN specialist_agents ELSE matched
            /\ last.ret # <<>>
            /\ Len(last.ret) = Cardinality(Range(last.ret))

\* C13 witness: 'why is my CPU at 100%' has just selected the performance
\* specialist alone.
C13_Witness ==
    /\ last.op = "select"
    /\ last.query = "why is my CPU at 100%"
    /\ last.ret = <<"performance">>

----------------------------------------------------------------------------
(* Claims about the tools, checked under ToolSpec *)

\* the typed answers that are a yes or a y, whatever their case and the blanks
\* around them
Affirmative == {"yes", "y", "Y", " YES "}

\* C14: system_action passes the command to run_command only after an answer
\* of yes or y, unless REQUIRE_CONFIRMATION is off; after any other answer it
\* returns the cancellation message and run_command is not called; the
\* command that runs is the one asked for, once.
C14_ConfirmationBeforeAction ==
    last.op = "system_action" =>
        /\ last.run_commands # <<>> =>
              \/ ~ settings.REQUIRE_CONFIRMATION
              \/ (~ last.eof /\ last.typed \in Affirmative)
        /\ (settings.REQUIRE_CONFIRMATION /\ ~ last.eof /\ last.typed \notin Affirmative) =>
              /\ last.ret = "System action cancelled by user."
              /\ last.run_commands = <<>>
        /\ (~ settings.REQUIRE_CONFIRMATION \/ (~ last.eof /\ last.typed \in Affirmative)) =>
              last.run_commands = <<last.command>>

\* C14 witness: with confirmation required, the answer "no" has just cancelled
\* the deletion.
C14_Witness ==
    /\ last.op = "system_action"
    /\ settings.REQUIRE_CONFIRMATION
    /\ last.command = "rm -rf /"
    /\ last.typed = "no"
    /\ last.ret = "System action cancelled by user."
    /\ last.run_commands = <<>>

\* the commands that are one invocation of a program of the whitelist
OnWhitelist == {"ps", " ps aux"}

\* C15: when live_system_info executes its argument as a command and
\* SAFE_MODE is on, run_command is called only for a command on the
\* whitelist; an empty command, a command of another program and a command
\* that chains further shell commands after a whitelisted first word are
\* refused with a message naming the command, and run_command is not called.
C15_OnlyWhitelistedCommandsRun ==
    ( /\ last.op = "live_system_info"
      /\ last.route = "_execute_safe_command"
      /\ settings.SAFE_MODE ) =>
        /\ last.run_commands # <<>> => last.command \in OnWhitelist
        /\ last.command \notin OnWhitelist =>
              /\ last.run_commands = <<>>
              /\ last.ret = "Command '" \o last.command
                            \o "' is not in the safe commands list: "
                            \o AllowedCommandsText

----------------------------------------------------------------------------
(* Claims about the factory, checked under FactorySpec *)

\* create_agent_pattern was called for a pattern without a strategy class: it
\* raised the configuration error and returned no instance
UnregisteredCreateFails ==
    (last.op = "create" /\ last.pattern \notin _pattern_classes) =>
        /\ last.raised
        /\ last.exception = "ValueError: Unsupported agent pattern: " \o last.pattern
        /\ last.instance = PyNone

----------------------------------------------------------------------------
(* Claims about the memory, checked under LongSessionSpec (and Spec) *)

\* C17: after n calls of add_interaction the interaction log holds
\* min(n, 1000) entries, the most recent ones in the order they were appended.
C17_LogKeepsLast1000 ==
    LET n == now
        log == memory_manager.interactions
        kept == IF n <= 1000 THEN n ELSE 1000
    IN  /\ Len(log) <= 1000
        /\ Len(log) = kept
        /\ \A i \in 1..Len(log) : log[i].user_input = QuestionAt(n - kept + i - 1)

\* C17 witness: 1001 interactions were appended, the log holds 1000 and its
\* oldest is the second one appended.
C17_Witness ==
    /\ now = 1001
    /\ Len(memory_manager.interactions) = 1000
    /\ memory_manager.interactions[1].user_input = "q1"
    /\ memory_manager.interactions[1000].user_input = "q1000"

\* the question of an exchange and its answer, as the two messages of the
\* chat history
AskedAt(time, messages, i) ==
    /\ messages[i] = [human |-> QuestionAt(time)]
    /\ "ai" \in DOMAIN messages[i + 1]

----------------------------------------------------------------------------
(* Claims about get_relevant_context, checked under ContextSpec *)

\* the words of a text of the model, lowercase
WordsOf(text) ==
    CASE text = "CPU high load" -> {"cpu", "high", "load"}
      [] text = " Disk  disk" -> {"disk"}
      [] text = "" -> {}
      [] text = "cpu load HIGH" -> {"cpu", "load", "high"}
      [] text = "ok" -> {"ok"}
      [] text = "disk full" -> {"disk", "full"}
      [] text = "high usage" -> {"high", "usage"}
      [] text = "hello" -> {"hello"}
      [] text = "hi  there" -> {"hi", "there"}
      [] text = "Load" -> {"load"}
      [] text = "cpu is fine" -> {"cpu", "is", "fine"}
      [] text = "high" -> {"high"}
      [] text = "done" -> {"done"}

\* the score of the i-th stored interaction against the query looked up
ScoreOf(i) ==
    LET stored == memory_manager.interactions[i]
    IN  Cardinality(WordsOf(last.query)
                      \cap (WordsOf(stored.user_input) \cup WordsOf(stored.ai_response)))

\* the stored interactions with a positive score
Scored == {i \in DOMAIN memory_manager.interactions : ScoreOf(i) > 0}

\* the place of a scored interaction: after those of higher score and after
\* the earlier ones of equal score
PlaceOf(i) ==
    1 + Cardinality({j \in Scored : \/ ScoreOf(j) > ScoreOf(i)
                                    \/ ScoreOf(j) = ScoreOf(i) /\ j < i})

ContextLookedUp == last.op = "get_relevant_context"

\* C19: get_relevant_context(query, max_items) returns the stored
\* interactions whose score (words shared by the lowercase query and the
\* lowercase input and response) is positive, by descending score, equal
\* scores in chronological order, cut to max_items; no interaction of score 0
\* is returned.
C19_RelevantContext ==
    ContextLookedUp =>
        /\ Len(last.ret) = Min(last.max_items, Cardinality(Scored))
        /\ \A i \in Scored :
               PlaceOf(i) <= Len(last.ret) =>
                   last.ret[PlaceOf(i)] =
                       with_score(memory_manager.interactions[i], ScoreOf(i))
        /\ \A k \in DOMAIN last.ret : last.ret[k].relevance_score > 0

\* C19 witness: interactions of scores 3, 1 and 0 and max_items 2: the
\* score-3 and the score-1 interaction are returned, in that order.
C19_Witness ==
    /\ ContextLookedUp
    /\ last.query = "CPU high load" /\ last.max_items = 2
    /\ Len(memory_manager.interactions) = 3
    /\ ScoreOf(1) = 1 /\ ScoreOf(2) = 0 /\ ScoreOf(3) = 3
    /\ last.ret = << with_score(memory_manager.interactions[3], 3),
                     with_score(memory_manager.interactions[1], 1) >>

----------------------------------------------------------------------------
(* Claims about what the CLI loop records, checked under Spec *)

\* a step of Spec in which execute_query returned a result to the loop
QueryCompleted == QueryRan /\ ~ last'.raised

\* C20: every query the loop completes (served from the cache, answered by
\* the model, or answered with an error result) appends exactly one
\* interaction, the question and the output shown; the commands, and every
\* other step, append none.
C20_OneInteractionPerQuery ==
    [][ /\ QueryCompleted =>
              memory_manager'.interactions =
                  Append(memory_manager.interactions,
                         [user_input |-> last'.query,
                          ai_response |-> last'.ret.output])
        /\ ~ QueryCompleted =>
              memory_manager'.interactions = memory_manager.interactions ]_vars

\* C20 witness: two questions were asked; the second was served from the
\* cache (no agent was invoked and the result is no error result) and both
\* are in the log.
C20_Witness ==
    /\ last.op = "query" /\ ~ last.raised
    /\ last.invoked = {} /\ ~ IsError(last.ret)
    /\ Len(memory_manager.interactions) = 2
    /\ memory_manager.interactions[1] = memory_manager.interactions[2]
    /\ memory_manager.interactions[2] =
           [user_input |-> last.query, ai_response |-> last.ret.output]

----------------------------------------------------------------------------
(* Claims about the prompt of run_cli, checked under PromptSpec *)

\* the lines that are empty once trimmed
BlankLines == {"", "  "}

\* a step of PromptSpec that read a line that is empty once trimmed
BlankLineRead == last'.op = "line" /\ last'.line \in BlankLines

\* C21: a line that is empty after trimming is a no-op: no strategy is
\* invoked and the cache, the memory and the active pattern stay as they
\* were.
C21_EmptyInputIsNoOp ==
    [][BlankLineRead =>
          /\ last'.invoked = {}
          /\ last'.branch = "continue"
          /\ cache_dir' = cache_dir
          /\ memory_manager' = memory_manager
          /\ current_pattern' = current_pattern
          /\ agent_pattern' = agent_pattern]_vars

\* C21 witness: a line of blanks was read in a session that has switched to
\* the conversational pattern, answered a question and cached another.
C21_Witness ==
    /\ last.op = "line" /\ last.line = "  " /\ last.branch = "continue"
    /\ current_pattern = "conversational"
    /\ Len(memory_manager.interactions) = 1
    /\ \E k \in DOMAIN cache_dir : cache_dir[k].kind = "json"

----------------------------------------------------------------------------
(* Further claims about the multi-agent strategy, checked under Spec *)

\* C22: in a multi-specialist query every selected specialist is invoked,
\* whether or not another one failed, and the coordinator is invoked after
\* all of them have returned or failed.
C22_CoordinatorAfterAllSettle ==
    (last.op = "query" /\ last.strategy = "multi_agent") =>
        /\ \A name \in SelectedSpecialists(last.query) : name \in last.invoked
        /\ "coordinator" \in last.invoked
        /\ last.coordination_input # PyNone

----------------------------------------------------------------------------
(* Claims about the self-questioning strategy, checked under SelfAskSpec *)

SelfAskRan == last.op = "self_ask"

\* the specialised path failed: its construction, or the run of its executor
SpecialisedPathFailed ==
    /\ last.has_search_tool
    /\ \/ ~ last.constructs
       \/ last.path = "specialised" /\ ~ last.ran

\* the fallback executor: ReAct with the configured budget
FallbackExecutor == AgentExecutor(settings.MAX_ITERATIONS, TRUE, "force")

\* the result of a run that did not fail
SameShape(result) == DOMAIN result = {"input", "output"} /\ ~ IsError(result)

\* C23 as stated: whenever no search tool is registered or the specialised
\* path fails, at construction or during execution, the query is answered by
\* the fallback and the caller sees no error caused by the specialised path.
C23_AsStated ==
    (SelfAskRan /\ (~ last.has_search_tool \/ SpecialisedPathFailed)
               /\ last.fallback_constructs) =>
        /\ last.path = "fallback"
        /\ last.ran => SameShape(last.ret)

\* C23 (amended): whenever no search tool is registered or the construction
\* of the specialised path fails, the query is answered by the fallback
\* executor and the caller sees a result of the usual shape, an error only
\* if the fallback itself failed; a failure while the specialised executor
\* runs is returned as an error result.
C23_FallbackOnConstruction ==
    SelfAskRan =>
        /\ ~ last.raised
        /\ (~ last.has_search_tool \/ ~ last.constructs) =>
              /\ last.path = "fallback"
              /\ last.fallback_constructs =>
                    /\ last.executor = FallbackExecutor
                    /\ last.ran <=> SameShape(last.ret)
              /\ IsError(last.ret) <=> ~ (last.fallback_constructs /\ last.ran)
        /\ (last.has_search_tool /\ last.constructs) =>
              /\ last.path = "specialised"
              /\ IsError(last.ret) <=> ~ last.ran

\* C23 witness: a search tool is registered, the construction of the
\* specialised executor failed, and the fallback answered.
C23_Witness ==
    /\ SelfAskRan
    /\ last.has_search_tool /\ ~ last.constructs
    /\ last.path = "fallback" /\ last.ran
    /\ last.ret = [input |-> "foo", output |-> "a1"]

----------------------------------------------------------------------------
(* Claims about the cache under two threads, checked under ThreadsSpec *)

\* the last call removed a file that had not expired when it was removed
RemovedFresh ==
    /\ last.removed.kind = "json"
    /\ ~ (last.removed_at - last.removed.timestamp > settings.CACHE_TTL_SECONDS)

\* C24: under every interleaving of the collector's clear_expired with the
\* main thread's get, set and clear_all, no call fails because a file
\* vanished between its listing and its removal, and neither get nor
\* clear_expired removes a file that is not expired when it is removed.
C24_CacheOperationsAtomic ==
    last.op \in {"get", "set", "clear_all", "clear_expired"} =>
        /\ ~ last.raised
        /\ last.op \in {"get", "clear_expired"} => ~ RemovedFresh

----------------------------------------------------------------------------
(* Claims about the tools of the specialists, checked under AssignSpec *)

MultiAgentBuilt == agent_pattern.cls = "multi_agent"

\* the tools each specialist is meant to have, by name
PerformanceTools == {"live_system_info", "rag_query"}
SecurityTools == {"system_action", "external_search"}

\* C25 as stated: the assignment never changes after construction, a
\* specialist's loop runs only tools of its own subset, and the three subsets
\* are pairwise disjoint.
C25_AsStated ==
    MultiAgentBuilt =>
        \A a, b \in specialist_agents :
            a # b => agent_pattern.specialist_tools[a]
                        \cap agent_pattern.specialist_tools[b] = {}

\* C25 (amended): the assignment never changes after construction, a
\* specialist's loop runs only tools of its own subset, the subsets of the
\* performance and the security specialist are disjoint, and the
\* troubleshooting specialist has every registered tool.
C25_AssignmentFixed ==
    [][ /\ MultiAgentBuilt => agent_pattern'.specialist_tools = agent_pattern.specialist_tools
        /\ MultiAgentBuilt' =>
              LET assigned == agent_pattern'.specialist_tools
              IN  /\ assigned.performance = agent_pattern'.tools \cap PerformanceTools
                  /\ assigned.security = agent_pattern'.tools \cap SecurityTools
                  /\ assigned.performance \cap assigned.security = {}
                  /\ assigned.troubleshooting = agent_pattern'.tools
        /\ (last'.op = "action" /\ last'.invoked) =>
              last'.tool \in agent_pattern'.specialist_tools[last'.specialist] ]_vars

\* C25 witness: with all six tools registered, the security specialist's
\* model asked for live_system_info, which is not one of its tools, and the
\* tool was not run.
C25_Witness ==
    /\ MultiAgentBuilt
    /\ agent_pattern.tools = AllTools
    /\ last.op = "action" /\ last.specialist = "security"
    /\ last.tool = "live_system_info" /\ ~ last.invoked
    /\ "live_system_info" \in agent_pattern.specialist_tools["troubleshooting"]

----------------------------------------------------------------------------
(* Further claims about the reasoning loops, checked under LoopSpec *)

\* the iteration budget prescribed for a loop of a strategy
PrescribedBudget(strategy, role) ==
    CASE role = "specialist" -> 5
      [] role = "coordinator" -> 3
      [] strategy = "plan_execute" -> 2 * settings.MAX_ITERATIONS
      [] OTHER -> settings.MAX_ITERATIONS

\* C26: every loop is built with its prescribed budget (reactive,
\* conversational and self-questioning the configured default, plan-execute
\* twice that, a specialist 5, the coordinator 3) and takes no more steps
\* than that.
C26_LoopsWithinBudget ==
    last.op = "loop" =>
        \A run \in last.runs :
            /\ run.executor.max_iterations = PrescribedBudget(last.strategy, run.role)
            /\ Len(run.trace) <= PrescribedBudget(last.strategy, run.role)

----------------------------------------------------------------------------
(* Claims about failures inside the tools, checked under ToolFailSpec *)

\* the last tool invocation had a call of its body raise
FailedInside == last.op = "tool" /\ last.failing \in Range(tool_calls(last.tool))

\* the text begins with the prefix
StartsWith(text, prefix) ==
    Len(text) >= Len(prefix) /\ SubSeq(text, 1, Len(prefix)) = prefix

\* C27: a failure raised inside a tool is caught and returned as an
\* error-string observation that carries the cause; nothing is raised into
\* the loop, and no call of the tool body is made a second time.
C27_ToolFailuresAreObservations ==
    last.op = "tool" =>
        /\ ~ last.raised
        /\ FailedInside =>
              /\ StartsWith(last.ret, "Error ")
              /\ SubSeq(last.ret, Len(last.ret) - Len(last.cause) + 1, Len(last.ret))
                    = last.cause
              /\ last.made[Len(last.made)] = last.failing
        /\ \A i, j \in DOMAIN last.made : last.made[i] = last.made[j] => i = j

\* C27 witness: the second measurement of system_health_check raised; the
\* tool returned the error string after the one attempt.
C27_Witness ==
    /\ last.op = "tool" /\ last.tool = "system_health_check"
    /\ last.failing = "_get_memory_info" /\ last.cause = "boom"
    /\ last.ret = "Error performing health check: boom"
    /\ last.made = <<"_get_cpu_usage", "_get_memory_info">>

----------------------------------------------------------------------------
(* Claims about switching the pattern, checked under SwitchSpec *)

\* a step in which the 'patterns' command chose a pattern other than the
\* active one
SwitchedToOther == SwitchRan /\ last'.changed

\* a step in which the 'patterns' command chose the active pattern
ReselectedActive == SwitchStep /\ last'.op = "switch" /\ ~ last'.changed

----------------------------------------------------------------------------
(* Claims about the multi-agent result, checked under SpecialistsSpec *)

\* the multi-agent strategy answered the last question without an error
SpecialistsAnswered == last.op = "specialists" /\ ~IsError(last.ret)

\* the block the coordinator is given for a specialist: its name as a
\* heading, then the text
LabelledBlock(name, text) == title(name) \o " Specialist Response:\n" \o text

\* C29: a non-error multi-agent result has coordination_used true and a
\* specialist_responses map whose keys are exactly the specialists selected
\* for the query, each mapped to the output of that specialist, and the
\* coordinator was given every one of these outputs under the name of its
\* specialist and nothing under the name of a specialist not selected.
C29_ResultCarriesSpecialistOutputs ==
    SpecialistsAnswered =>
        LET selected == Range(_determine_relevant_specialists(last.query))
            given == last.coordination_input.specialist_responses
        IN  /\ last.ret.coordination_used = TRUE
            /\ DOMAIN last.ret.specialist_responses = selected
            /\ selected \subseteq last.invoked
            /\ \A name \in selected :
                /\ last.ret.specialist_responses[name] = SpecialistOutput(name)
                /\ Contains(given, LabelledBlock(name, SpecialistOutput(name)))
            /\ \A name \in specialist_agents \ selected :
                ~Contains(given, title(name) \o " Specialist Response:")

\* a question on security alone was answered by the security specialist alone
C29_Witness ==
    /\ SpecialistsAnswered
    /\ last.query = "firewall rules"
    /\ DOMAIN last.ret.specialist_responses = {"security"}

----------------------------------------------------------------------------
(* Claims about clearing the cache, checked under CacheSpec *)

\* a step of CacheSpec in which clear_all() ran and returned
ClearAllReturned == last' # last /\ last'.op = "clear_all" /\ ~ last'.raised

\* a step of CacheSpec in which clear_expired() ran and returned
ClearExpiredReturned == last' # last /\ last'.op = "clear_expired" /\ ~ last'.raised

\* the entry of a file is older than the ttl
OlderThanTtl(file) ==
    file.kind = "json" /\ now - file.timestamp > settings.CACHE_TTL_SECONDS

\* C30: once clear_all has returned, get(q) is a miss for every query.
\* clear_expired removes every entry whose age exceeds the ttl (when its
\* reads and removals succeed) and, whatever its file operations do, no
\* other file: every other entry keeps its value and its timestamp.
C30_ClearingFrame ==
    [][ /\ ClearAllReturned =>
              \A q \in Queries : \A io \in GetIo(q) :
                  get(cache_dir', q, io).ret = PyNone
        /\ ClearExpiredReturned =>
              \A k \in CacheKeys :
                  /\ (OlderThanTtl(cache_dir[k]) /\ last'.io = "none") =>
                        cache_dir'[k] = NoFile
                  /\ (~ OlderThanTtl(cache_dir[k])) => cache_dir'[k] = cache_dir[k]
                  /\ cache_dir'[k] \in {NoFile, cache_dir[k]} ]_vars

\* C30 witness: clear_expired has just removed the entry of "foo" and left
\* the younger entry of "foo " stored.
C30_Witness ==
    /\ last.op = "clear_expired"
    /\ last.io = "none"
    /\ last.removed = {_get_cache_key("foo")}
    /\ cache_dir[_get_cache_key("foo ")].kind = "json"
    /\ get(cache_dir, "foo ", IoOk).ret # PyNone

\* C30 witness of the other half: clear_all has just removed two files
C30_ClearAllActed ==
    /\ last.op = "clear_all"
    /\ ~ last.raised
    /\ last.removed = CacheKeys

----------------------------------------------------------------------------
(* Claims about run_command, checked under RunSpec *)

\* the last call of run_command ended in a timeout or the process could not
\* be launched
RunFailed ==
    \/ last.proc.kind \in {"timeout", "error"}
    \/ EmptyArgv(last.command, last.shell, last.platform)

\* C31: run_command always returns a record of success, stdout, stderr and
\* returncode and raises nothing.  After a timeout or a failure to launch the
\* process, success is false, returncode is -1 and stderr is not empty;
\* otherwise returncode is the exit code of the process.  success is true
\* exactly when returncode is 0.
C31_RunCommandTotal ==
    last.op = "run_command" =>
        /\ ~ last.raised
        /\ DOMAIN last.ret = {"success", "stdout", "stderr", "returncode"}
        /\ last.ret.success \in BOOLEAN
        /\ RunFailed =>
              /\ last.ret.success = FALSE
              /\ last.ret.returncode = -1
              /\ last.ret.stderr # ""
        /\ ~ RunFailed => last.ret.returncode = last.proc.code
        /\ last.ret.success <=> (last.ret.returncode = 0)

\* C31 witness: a command has timed out and run_command returned the record
\* of a failure.
C31_Witness ==
    /\ last.op = "run_command"
    /\ last.proc = TimedOut
    /\ ~ EmptyArgv(last.command, last.shell, last.platform)
    /\ last.ret = [success |-> FALSE, stdout |-> "",
                   stderr |-> "Command timed out", returncode |-> -1]

----------------------------------------------------------------------------
(* Claims about the session summary, checked under LongSessionSpec *)

\* the lines of the exchanges n, n + 1, ... of the session, the last one
\* being exchange m
RECURSIVE ExchangeLines(_, _, _)
ExchangeLines(messages, n, m) ==
    IF n > m THEN ""
    ELSE SummaryLines(content(messages[2 * n - 1]), content(messages[2 * n]))
            \o ExchangeLines(messages, n + 1, m)

\* C32: get_session_summary returns 'No previous interactions in this
\* session.' when the session holds no messages; otherwise it gives the
\* number of exchanges recorded in the session and then lists the last three
\* exchanges of the session (all of them when there are fewer).
C32_SummaryListsLastThree ==
    LET messages == memory_manager.messages
        exchanges == Len(messages) \div 2
        first == IF exchanges > 3 THEN exchanges - 2 ELSE 1
    IN  get_session_summary(memory_manager) =
            IF messages = <<>>
                THEN "No previous interactions in this session."
            ELSE "Session started with " \o ToString(exchanges) \o " interactions:\n"
                    \o ExchangeLines(messages, first, exchanges)

----------------------------------------------------------------------------
(* Claims about the session's strategy, checked under FactorySpec *)

\* C33: in a running session, after the session start and after every
\* 'patterns' command, also one in which neither the selected strategy nor the
\* ReAct strategy could be constructed, current_pattern is one of the five
\* patterns of the factory and agent_pattern is an instance of the class
\* registered for current_pattern.
C33_PatternMatchesInstance ==
    (last.op \in {"initialize", "switch"} /\ agent_pattern # PyNone) =>
        /\ current_pattern \in _pattern_classes
        /\ agent_pattern.cls = current_pattern

----------------------------------------------------------------------------
(* Claims about clear_expired beside a foreground set, under ThreadsSpec *)

\* a step of the collector thread inside clear_expired
CollectorMoved == pc'.collector # pc.collector

\* the file of a key holds an entry whose timestamp is within the ttl
WithinTtl(key) == cache_dir[key].kind = "json" /\ ~ IsExpired(cache_dir[key])

\* C34: under every interleaving of the collector thread's clear_expired with
\* the main thread's set, no step of clear_expired removes or changes an entry
\* whose timestamp is within the ttl: an entry just written over an expired
\* one is still there after clear_expired has passed.
C34_FreshEntrySurvives ==
    [][ CollectorMoved =>
            \A key \in CacheKeys : WithinTtl(key) => cache_dir'[key] = cache_dir[key] ]_vars

----------------------------------------------------------------------------
(* Claims about what get returns after any history, under RecordedSpec *)

\* get has just returned a value
GetHit == last.op = "get" /\ last.ret # PyNone

\* the most recent set of the last query that was written in full
LastWritten == last.written[last.query]

----------------------------------------------------------------------------
(* Claims about the cache lookup of execute_query, under SharedCacheSpec *)

\* execute_query has just run on a query whose cache entry was within the ttl
\* and readable
LookedUpUsable == last.op = "execute_query" /\ last.usable

\* C36: the cache lookup of execute_query depends on the text of the query
\* alone.  Within the ttl, the result cached for a query, by whatever strategy
\* and with whatever context, is what execute_query returns for that query
\* under every caching strategy and with every context; the agent is not
\* executed and the cache is left as it was.
C36_LookupByQueryTextOnly ==
    LookedUpUsable =>
        /\ last.ret = last.found.result
        /\ last.found.query = last.query
        /\ last.invoked = {}
        /\ last.unchanged

\* C36 witness: a result cached by one strategy with one context has just
\* been returned under another strategy with another context.
C36_Witness ==
    /\ LookedUpUsable
    /\ last.cached[last.query] # PyNone
    /\ last.cached[last.query].strategy = "react"
    /\ last.cached[last.query].context = [user |-> "alice"]
    /\ last.strategy = "plan_execute"
    /\ last.context = [user |-> "bob"]
    /\ last.ret = [input |-> last.query, output |-> "a1", user |-> "alice"]

----------------------------------------------------------------------------
(* Claims about unreadable cache entries, checked under CacheSpec *)

\* the file of a key is there and cannot be parsed
Unreadable(key) == cache_dir[key].kind = "corrupt"

\* a step of CacheSpec in which clear_expired() ran
ClearExpiredRan == last' # last /\ last'.op = "clear_expired"

\* C37: get treats an entry that cannot be read or parsed as a miss and
\* leaves it in place, and clear_expired passes it over; the file stays as it
\* is until a set of the same query rewrites it or clear_all removes it.
C37_UnreadableEntryPersists ==
    [][ \A key \in CacheKeys :
          Unreadable(key) =>
            /\ (GetRan /\ KeyOfLastGet = key) =>
                  /\ last'.ret = PyNone
                  /\ ~ last'.raised
                  /\ cache_dir' = cache_dir
            /\ ClearExpiredRan => cache_dir'[key] = cache_dir[key]
            /\ cache_dir'[key] # cache_dir[key] =>
                  \/ last'.op = "set" /\ _get_cache_key(last'.query) = key
                  \/ last'.op = "clear_all" ]_vars

\* C37 witness: get has just found the unreadable file of its query, returned
\* a miss and left the file where it was.
C37_Witness ==
    /\ last.op = "get"
    /\ last.branch = "except"
    /\ last.io = "none"
    /\ last.ret = PyNone
    /\ cache_dir[_get_cache_key(last.query)].kind = "corrupt"

====
